---------------------------- MODULE Spec2Model ----------------------------
(***************************************************************************)
(* A model of the InstallShield 3 extractor of sc2kne_patcher              *)
(* (src/src/is3extract.py): the DCL IMPLODE decompressor decompress_dcl    *)
(* with its BitReader and HuffmanTable, the archive scanner                *)
(* find_is3_archives and the table parser parse_file_table.                *)
(*                                                                         *)
(* Python sequences are 0-indexed and TLA+ sequences 1-indexed: the byte   *)
(* data[i] of the source is data[i + 1] here.  Text is modelled as the     *)
(* sequence of its character codes.                                        *)
(***************************************************************************)
EXTENDS Integers, Sequences, FiniteSets, TLC

(***************************************************************************)
(* Program constants                                                       *)
(***************************************************************************)
MAXBITS == 13

MAXWIN == 4096

END_CODE == 519

IS3_SIGNATURE == <<19, 93, 101, 140>>

\* A length table whose last two symbols have codes of 8 bits, not 7.
LENLEN_Long == <<2, 35, 36, 53, 38, 24>>

LENLEN == <<2, 35, 36, 53, 38, 23>>

DISTLEN == <<2, 20, 53, 230, 247, 151, 248>>

LITLEN ==
  <<11, 124, 8, 7, 28, 7, 188, 13, 76, 4, 10, 8, 12, 10, 12, 10, 8, 23, 8,
    9, 7, 6, 7, 8, 7, 6, 55, 8, 23, 24, 12, 11, 7, 9, 11, 12, 6, 7, 22, 5,
    7, 24, 6, 11, 9, 6, 7, 22, 7, 11, 38, 7, 9, 8, 25, 11, 8, 11, 9, 12,
    8, 12, 5, 38, 5, 38, 5, 11, 7, 5, 6, 21, 6, 10, 53, 8, 7, 24, 10, 27,
    44, 253, 253, 253, 252, 252, 252, 13, 12, 45, 12, 45, 12, 61, 12, 45,
    44, 173>>

\* BASE[symbol] and EXTRA[symbol] of the source are BASE[symbol + 1] and
\* EXTRA[symbol + 1] here.
BASE == <<3, 2, 4, 5, 6, 7, 8, 9, 10, 12, 16, 24, 40, 72, 136, 264>>

EXTRA == <<0, 0, 0, 0, 0, 0, 0, 0, 1, 2, 3, 4, 5, 6, 7, 8>>

Byte == 0..255

(***************************************************************************)
(* Integer bit operations, computed bit by bit                             *)
(***************************************************************************)
Shl(x, n) == x * (2 ^ n)

Shr(x, n) == x \div (2 ^ n)

RECURSIVE BitOr(_, _)
BitOr(a, b) ==
  IF a = 0 THEN b
  ELSE IF b = 0 THEN a
  ELSE (IF (a % 2 = 1) \/ (b % 2 = 1) THEN 1 ELSE 0)
         + 2 * BitOr(a \div 2, b \div 2)

RECURSIVE BitAnd(_, _)
BitAnd(a, b) ==
  IF a = 0 \/ b = 0 THEN 0
  ELSE (IF (a % 2 = 1) /\ (b % 2 = 1) THEN 1 ELSE 0)
         + 2 * BitAnd(a \div 2, b \div 2)

RECURSIVE BitXor(_, _)
BitXor(a, b) ==
  IF a = 0 THEN b
  ELSE IF b = 0 THEN a
  ELSE (IF (a % 2) # (b % 2) THEN 1 ELSE 0)
         + 2 * BitXor(a \div 2, b \div 2)

(***************************************************************************)
(* Exceptions.  A raising call returns the exception in its exc field;     *)
(* NoExc is a normal return.                                               *)
(***************************************************************************)
NoExc == "none"

EndOfInput == "ValueError: Unexpected end of input"

InvalidCode == "ValueError: Invalid Huffman code"

IndexErr == "IndexError"

\* bytearray.append of a value outside 0..255
ByteRange == "ValueError: byte must be in range(0, 256)"

ExcType(e) ==
  IF e \in {EndOfInput, InvalidCode, ByteRange} THEN "ValueError"
  ELSE IF e = IndexErr THEN "IndexError"
  ELSE "other"

(***************************************************************************)
(* BitReader.  A reader is the record [pos, bitbuf, bitcnt].               *)
(***************************************************************************)
BitReader == [pos |-> 0, bitbuf |-> 0, bitcnt |-> 0]

\* The refill loop of bits(): pos and bitcnt are fields of the reader and
\* keep what the loop did to them when it raises; val is a local.
RECURSIVE Refill(_, _, _, _, _)
Refill(d, pos, bitcnt, val, need) ==
  IF bitcnt < need
  THEN IF pos >= Len(d)
       THEN [exc |-> EndOfInput, pos |-> pos, bitcnt |-> bitcnt, val |-> val]
       ELSE Refill(d, pos + 1, bitcnt + 8,
                   BitOr(val, Shl(d[pos + 1], bitcnt)), need)
  ELSE [exc |-> NoExc, pos |-> pos, bitcnt |-> bitcnt, val |-> val]

\* bits() without the mask of its result.
bits_NoMask(d, rd, need) ==
  LET f == Refill(d, rd.pos, rd.bitcnt, rd.bitbuf, need)
  IN  IF f.exc # NoExc
      THEN [exc |-> f.exc, val |-> 0,
            rd |-> [pos |-> f.pos, bitbuf |-> rd.bitbuf, bitcnt |-> f.bitcnt]]
      ELSE [exc |-> NoExc,
            val |-> f.val,
            rd |-> [pos |-> f.pos, bitbuf |-> Shr(f.val, need),
                    bitcnt |-> f.bitcnt - need]]

\* bits() that forgets the bits left over in the accumulator.
bits_DropBuf(d, rd, need) ==
  LET f == Refill(d, rd.pos, rd.bitcnt, rd.bitbuf, need)
  IN  IF f.exc # NoExc
      THEN [exc |-> f.exc, val |-> 0,
            rd |-> [pos |-> f.pos, bitbuf |-> rd.bitbuf, bitcnt |-> f.bitcnt]]
      ELSE [exc |-> NoExc,
            val |-> BitAnd(f.val, Shl(1, need) - 1),
            rd |-> [pos |-> f.pos, bitbuf |-> 0, bitcnt |-> f.bitcnt - need]]

bits(d, rd, need) ==
  LET f == Refill(d, rd.pos, rd.bitcnt, rd.bitbuf, need)
  IN  IF f.exc # NoExc
      THEN [exc |-> f.exc, val |-> 0,
            rd |-> [pos |-> f.pos, bitbuf |-> rd.bitbuf, bitcnt |-> f.bitcnt]]
      ELSE [exc |-> NoExc,
            val |-> BitAnd(f.val, Shl(1, need) - 1),
            rd |-> [pos |-> f.pos, bitbuf |-> Shr(f.val, need),
                    bitcnt |-> f.bitcnt - need]]

(***************************************************************************)
(* HuffmanTable                                                            *)
(***************************************************************************)
Repeat(x, n) == [i \in 1..n |-> x]

\* The expansion of the packed representation: (high nibble + 1) copies of
\* the low nibble per byte.
RECURSIVE Expand(_)
Expand(rep) ==
  IF rep = <<>> THEN <<>>
  ELSE Repeat(BitAnd(Head(rep), 15), Shr(Head(rep), 4) + 1) \o Expand(Tail(rep))

\* The iterations lo .. hi - 1 of a loop with the body Body(i, st) on the
\* state st, in order.  The range is split in halves and the first half is
\* evaluated (st = st is always true) before the second is entered, which
\* keeps the evaluation shallow.
RECURSIVE ForRange(_, _, _, _)
ForRange(Body(_, _), lo, hi, st) ==
  IF hi <= lo THEN st
  ELSE IF hi = lo + 1 THEN Body(lo, st)
  ELSE LET mid == (lo + hi) \div 2
           half == ForRange(Body, lo, mid, st)
       IN  IF half = half THEN ForRange(Body, mid, hi, half) ELSE half

\* count[length] += 1 for every length, for a list count of MAXBITS + 1 cells.
CountLengths(lengths) ==
  ForRange(LAMBDA i, count : [count EXCEPT ![lengths[i + 1]] = @ + 1],
           0, Len(lengths), [L \in 0..MAXBITS |-> 0])

\* offs[i + 1] = offs[i] + count[i] for i in 1..MAXBITS-1, from offs = 0.
RECURSIVE Offsets(_, _, _)
Offsets(count, offs, i) ==
  IF i >= MAXBITS THEN offs
  ELSE Offsets(count, [offs EXCEPT ![i + 1] = offs[i] + count[i]], i + 1)

\* A loop that does not move on in the block after it has placed a symbol.
PlaceOne_NoAdvance(lengths, sym, st) ==
  LET length == lengths[sym + 1]
  IN  IF length # 0
      THEN [offs |-> st.offs,
            symbol |-> [st.symbol EXCEPT ![st.offs[length] + 1] = sym]]
      ELSE st

\* One iteration of the loop that places the symbols: st is [offs, symbol].
PlaceOne(lengths, sym, st) ==
  LET length == lengths[sym + 1]
  IN  IF length # 0
      THEN [offs |-> [st.offs EXCEPT ![length] = st.offs[length] + 1],
            symbol |-> [st.symbol EXCEPT ![st.offs[length] + 1] = sym]]
      ELSE st

\* The constructor: a length beyond MAXBITS indexes count out of range.
HuffmanTable(rep) ==
  LET lengths == Expand(rep)
      n == Len(lengths)
  IN  IF \E i \in 1..n : lengths[i] > MAXBITS
      THEN [exc |-> IndexErr, count |-> [L \in 0..MAXBITS |-> 0], symbol |-> <<>>]
      ELSE LET count == CountLengths(lengths)
               offs == Offsets(count, [i \in 0..MAXBITS |-> 0], 1)
           IN  [exc |-> NoExc, count |-> count,
                symbol |-> ForRange(LAMBDA sym, st : PlaceOne(lengths, sym, st),
                                    0, n,
                                    [offs |-> offs,
                                     symbol |-> Repeat(0, n)]).symbol]

\* symbol[i] of a Python list of n elements: negative i counts from the end.
ListIndex(list, i) ==
  LET n == Len(list)
  IN  IF i >= n \/ i < 0 - n THEN [exc |-> IndexErr, val |-> 0]
      ELSE [exc |-> NoExc, val |-> list[(IF i < 0 THEN i + n ELSE i) + 1]]

RECURSIVE DecodeLoop(_, _, _, _, _, _, _)
DecodeLoop(h, d, rd, code, first, index, length) ==
  IF length > MAXBITS
  THEN [exc |-> InvalidCode, val |-> 0, rd |-> rd]
  ELSE LET b == bits(d, rd, 1)
       IN  IF b.exc # NoExc
           THEN [exc |-> b.exc, val |-> 0, rd |-> b.rd]
           ELSE LET code1 == BitOr(code, BitXor(b.val, 1))
                    count == h.count[length]
                IN  IF code1 < first + count
                    THEN LET s == ListIndex(h.symbol, index + (code1 - first))
                         IN  [exc |-> s.exc, val |-> s.val, rd |-> b.rd]
                    ELSE DecodeLoop(h, d, b.rd, Shl(code1, 1),
                                    Shl(first + count, 1), index + count,
                                    length + 1)

\* A decode that begins with codes of two bits.
decode_FromTwo(h, d, rd) == DecodeLoop(h, d, rd, 0, 0, 0, 2)

decode(h, d, rd) == DecodeLoop(h, d, rd, 0, 0, 0, 1)

litcode == HuffmanTable(LITLEN)

lencode == HuffmanTable(LENLEN)

distcode == HuffmanTable(DISTLEN)


(***************************************************************************)
(* decompress_dcl as a state machine.  pc is the position in the function: *)
(* "start" before the header is read, "loop" at the head of the unit loop, *)
(* "copy" inside the copy loop of a match, "returned" after a return and   *)
(* "raised" if an exception left the function.  ret names the return       *)
(* statement taken.  unit_no counts the units decoded so far, and fixture  *)
(* records how the input was built; neither is read by any action's guard. *)
(***************************************************************************)
VARIABLES data, reader, output, window, window_pos, first, lit, dict_bits,
          symbol, length, dist_extra, dist, remaining, pc, result, ret,
          unit_no, fixture

\* The locals of find_is3_archives and of parse_file_table.  data, pc and
\* result are shared by the three functions: each specification runs one.
VARIABLES pos, archives, archive_info, directories, dir_for_file, files, idx

\* The parameters and locals of extract_archive: ea_pc is its position,
\* ea_data its buffer, output_dir its output directory, file_no the index of
\* the record of the loop; disk maps the path of every file written to its
\* content and made is the set of directories created.  runs keeps what
\* earlier calls returned and wrote.
VARIABLES ea_pc, ea_data, output_dir, file_no, extracted, failed, disk, made,
          runs

\* main of is3extract.py: m_pc is its position, argv the command line,
\* m_data what it read from the input file, m_archives what the scan
\* returned, arch_no the index of its loops; exit_code is the exit status
\* once it has ended, and calls lists the calls of extract_archive made.
VARIABLES m_pc, argv, m_data, list_only, archive_filter, m_archives, arch_no,
          total_extracted, total_failed, exit_code, calls

\* patch_file of sc2knet_patcher.py: pf_pc is its position, pf_args its
\* arguments, old_data and new_data its locals.
VARIABLES pf_pc, pf_args, old_data, new_data

\* apply_patches of patch_sc2k_v11.py: ap_pc is its position, ap_data its
\* bytearray, patches its list of patches, ap_no the index of the patch
\* of the loop, results its list; ap_first keeps what the first of two
\* calls was given and returned.
VARIABLES ap_pc, ap_data, patches, ap_no, results, ap_first

\* main of main.py: w_pc is its position, folders what the files
\* directory, the update directory and the game directory hold,
\* current_files and file_check_result its locals, and trace lists the
\* steps the run has made.
VARIABLES w_pc, folders, current_files, file_check_result, trace

scanVars == <<pos, archives>>

mainVars == <<m_pc, argv, m_data, list_only, archive_filter, m_archives,
              arch_no, total_extracted, total_failed, exit_code, calls>>

patchVars == <<pf_pc, pf_args, old_data, new_data>>

extractVars == <<ea_pc, ea_data, output_dir, file_no, extracted, failed, disk,
                 made, runs>>

applyVars == <<ap_pc, ap_data, patches, ap_no, results, ap_first>>

flowVars == <<w_pc, folders, current_files, file_check_result, trace>>

toolVars == <<applyVars, flowVars>>

\* The variables of the callers of the three functions.
callerVars == <<extractVars, mainVars, patchVars, toolVars>>

\* idx is the loop index i of the directory loop and of the file loop.
tableVars == <<archive_info, directories, dir_for_file, files, idx>>

vars == <<data, reader, output, window, window_pos, first, lit, dict_bits,
          symbol, length, dist_extra, dist, remaining, pc, result, ret,
          unit_no, fixture, pos, archives, archive_info, directories,
          dir_for_file, files, idx, ea_pc, ea_data, output_dir, file_no,
          extracted, failed, disk, made, runs, m_pc, argv, m_data, list_only,
          archive_filter, m_archives, arch_no, total_extracted, total_failed,
          exit_code, calls, pf_pc, pf_args, old_data, new_data, ap_pc,
          ap_data, patches, ap_no, results, ap_first, w_pc, folders,
          current_files, file_check_result, trace>>

dclVars == <<data, reader, output, window, window_pos, first, lit, dict_bits,
             symbol, length, dist_extra, dist, remaining, pc, result, ret,
             unit_no, fixture>>

None == [kind |-> "None", value |-> <<>>]

Unset == [kind |-> "unset", value |-> <<>>]

bytes(seq) == [kind |-> "bytes", value |-> seq]

\* A handler that names IndexError alone.
Caught_IndexOnly(e) == ExcType(e) = "IndexError"

\* except (ValueError, IndexError)
Caught(e) == ExcType(e) \in {"ValueError", "IndexError"}

\* window = bytearray(MAXWIN) is zero-filled; the model keeps the cells that
\* were written and reads 0 from the others.
WinRead(w, i) == IF i \in DOMAIN w THEN w[i] ELSE 0

WinWrite(w, i, b) ==
  IF i \in DOMAIN w THEN [w EXCEPT ![i] = b] ELSE w @@ (i :> b)

\* A handler that returns what was decoded so far.
Except_Partial(e, rd) ==
  /\ reader' = rd
  /\ pc' = "returned" /\ result' = bytes(output) /\ ret' = "except"

\* An exception e inside the try block, with the reader left at rd.
Except(e, rd) ==
  /\ reader' = rd
  /\ IF Caught(e)
     THEN pc' = "returned" /\ result' = None /\ ret' = "except"
     ELSE pc' = "raised" /\ result' = Unset /\ ret' = "raise"

\* A dictionary-bits test that lets 7 through.
BadDictBits_UpTo7(db) == db < 4 \/ db > 7

\* The two tests of the header bytes.
BadLit(l) == l > 1

BadDictBits(db) == db < 4 \/ db > 6

\* An output that starts with what the call before left in it.
NewOutput_Stale == output

\* output = bytearray()
NewOutput == <<>>

\* window = bytearray(MAXWIN), of which no cell is written yet.
NewWindow == <<>>

\* The locals the try block creates before it reads the header.
NewLocals ==
  /\ output' = NewOutput
  /\ window' = NewWindow
  /\ window_pos' = 0
  /\ first' = TRUE

ReadHeader ==
  /\ pc = "start"
  /\ UNCHANGED <<data, symbol, length, dist_extra, dist, remaining, unit_no,
                 fixture>>
  /\ UNCHANGED <<scanVars, tableVars, callerVars>>
  /\ IF Len(data) < 2
     THEN /\ pc' = "returned" /\ result' = None /\ ret' = "short"
          /\ UNCHANGED <<reader, lit, dict_bits, output, window, window_pos,
                         first>>
     ELSE \E l \in {bits(data, BitReader, 8)} :
          NewLocals /\
          \E db \in {bits(data, l.rd, 8)} :
            IF l.exc # NoExc
            THEN Except(l.exc, l.rd) /\ UNCHANGED <<lit, dict_bits>>
            ELSE IF db.exc # NoExc
            THEN Except(db.exc, db.rd) /\ lit' = l.val /\ UNCHANGED dict_bits
            ELSE /\ lit' = l.val
                 /\ dict_bits' = db.val
                 /\ IF BadLit(l.val)
                    THEN /\ pc' = "returned" /\ result' = None /\ ret' = "lit"
                         /\ reader' = db.rd
                    ELSE IF BadDictBits(db.val)
                    THEN /\ pc' = "returned" /\ result' = None /\ ret' = "dict"
                         /\ reader' = db.rd
                    ELSE IF l.val # 0 /\ litcode.exc # NoExc
                    THEN Except(litcode.exc, db.rd)
                    ELSE IF lencode.exc # NoExc
                    THEN Except(lencode.exc, db.rd)
                    ELSE IF distcode.exc # NoExc
                    THEN Except(distcode.exc, db.rd)
                    ELSE /\ pc' = "loop" /\ reader' = db.rd
                         /\ UNCHANGED <<result, ret>>

\* The input ends where the flag bit of the next unit is expected.
FlagFails ==
  /\ pc = "loop"
  /\ \E f \in {bits(data, reader, 1)} :
       /\ f.exc # NoExc
       /\ Except(f.exc, f.rd)
  /\ UNCHANGED <<data, output, window, window_pos, first, lit, dict_bits,
                 symbol, length, dist_extra, dist, remaining, unit_no, fixture>>
  /\ UNCHANGED <<scanVars, tableVars, callerVars>>

\* A position that is never taken back to 0.
Advance_NoWrap(wpos) == wpos + 1

\* window_pos after one more byte, and the first flag after it.
Advance(wpos) == (wpos + 1) % MAXWIN

Emit(b) ==
  /\ output' = Append(output, b)
  /\ window' = WinWrite(window, window_pos, b)
  /\ window_pos' = Advance(window_pos)
  /\ first' = IF Advance(window_pos) = 0 THEN FALSE ELSE first

\* A unit whose flag bit is 0.
Literal ==
  /\ pc = "loop"
  /\ \E f \in {bits(data, reader, 1)} :
       /\ f.exc = NoExc
       /\ f.val = 0
       /\ \E s \in {IF lit # 0 THEN decode(litcode, data, f.rd)
                               ELSE bits(data, f.rd, 8)} :
            IF s.exc # NoExc
            THEN /\ Except(s.exc, s.rd)
                 /\ UNCHANGED <<output, window, window_pos, first, symbol,
                                unit_no>>
            ELSE IF s.val \notin Byte
            THEN /\ Except(ByteRange, s.rd)
                 /\ symbol' = s.val
                 /\ UNCHANGED <<output, window, window_pos, first, unit_no>>
            ELSE /\ symbol' = s.val
                 /\ Emit(s.val)
                 /\ reader' = s.rd
                 /\ unit_no' = unit_no + 1
                 /\ UNCHANGED <<pc, result, ret>>
  /\ UNCHANGED <<data, lit, dict_bits, length, dist_extra, dist, remaining,
                 fixture>>
  /\ UNCHANGED <<scanVars, tableVars, callerVars>>

\* dist_extra without the special case of length 2.
DistExtra_NoSpecial(len, db) == db

\* dist_extra = 2 if length == 2 else dict_bits
DistExtra(len, db) == IF len = 2 THEN 2 ELSE db

\* A decoder without the distance test.
TooFar_Never(fst, dst, wpos) == FALSE

\* if first and dist > window_pos: return None
TooFar(fst, dst, wpos) == fst /\ dst > wpos

\* The match branch from the reader rd that has read the flag bit, up to
\* length = BASE[symbol] + reader.bits(EXTRA[symbol]).  The result says how
\* many of the locals symbol and length were assigned (got) before an
\* exception, if any.
LengthOf(s, b, x) ==
  IF x.exc # NoExc
  THEN [exc |-> x.exc, rd |-> x.rd, got |-> 1, symbol |-> s.val, length |-> 0]
  ELSE [exc |-> NoExc, rd |-> x.rd, got |-> 2, symbol |-> s.val,
        length |-> b.val + x.val]

LengthExtra(d, s, b, e) ==
  IF b.exc # NoExc
  THEN [exc |-> b.exc, rd |-> s.rd, got |-> 1, symbol |-> s.val, length |-> 0]
  ELSE IF e.exc # NoExc
  THEN [exc |-> e.exc, rd |-> s.rd, got |-> 1, symbol |-> s.val, length |-> 0]
  ELSE LengthOf(s, b, bits(d, s.rd, e.val))

LengthBase(d, s) ==
  IF s.exc # NoExc
  THEN [exc |-> s.exc, rd |-> s.rd, got |-> 0, symbol |-> 0, length |-> 0]
  ELSE LengthExtra(d, s, ListIndex(BASE, s.val), ListIndex(EXTRA, s.val))

MatchLength(d, rd) == LengthBase(d, decode(lencode, d, rd))

\* A distance without the final dist += 1.
DistanceOf_NoPlusOne(de, ds, dx) ==
  IF dx.exc # NoExc
  THEN [exc |-> dx.exc, rd |-> dx.rd, got |-> 2, dist_extra |-> de,
        dist |-> Shl(ds.val, de)]
  ELSE [exc |-> NoExc, rd |-> dx.rd, got |-> 3, dist_extra |-> de,
        dist |-> Shl(ds.val, de) + dx.val]

\* The match branch from dist_extra = ... to dist += 1, for a length that is
\* not the end code.  got counts the assignments made: of dist_extra, of
\* dist = distcode.decode(reader) << dist_extra, and of the final dist.
DistanceOf(de, ds, dx) ==
  IF dx.exc # NoExc
  THEN [exc |-> dx.exc, rd |-> dx.rd, got |-> 2, dist_extra |-> de,
        dist |-> Shl(ds.val, de)]
  ELSE [exc |-> NoExc, rd |-> dx.rd, got |-> 3, dist_extra |-> de,
        dist |-> Shl(ds.val, de) + dx.val + 1]

DistanceExtra(d, de, ds) ==
  IF ds.exc # NoExc
  THEN [exc |-> ds.exc, rd |-> ds.rd, got |-> 1, dist_extra |-> de, dist |-> 0]
  ELSE DistanceOf(de, ds, bits(d, ds.rd, de))

MatchDistance(d, rd, len, db) ==
  DistanceExtra(d, DistExtra(len, db), decode(distcode, d, rd))

\* A unit whose flag bit is 1: the end code, a distance too far back, or a
\* match whose copy loop is entered.
Match ==
  /\ pc = "loop"
  /\ \E f \in {bits(data, reader, 1)} :
       /\ f.exc = NoExc
       /\ f.val # 0
       /\ \E m \in {MatchLength(data, f.rd)} :
            /\ symbol' = IF m.got >= 1 THEN m.symbol ELSE symbol
            /\ length' = IF m.got >= 2 THEN m.length ELSE length
            /\ IF m.exc # NoExc
               THEN /\ Except(m.exc, m.rd)
                    /\ UNCHANGED <<dist_extra, dist, remaining, unit_no>>
               ELSE IF m.length = END_CODE
               THEN /\ pc' = "returned" /\ result' = bytes(output)
                    /\ ret' = "end" /\ reader' = m.rd
                    /\ unit_no' = unit_no + 1
                    /\ UNCHANGED <<dist_extra, dist, remaining>>
               ELSE \E q \in {MatchDistance(data, m.rd, m.length, dict_bits)} :
                      /\ dist_extra' = q.dist_extra
                      /\ dist' = IF q.got >= 2 THEN q.dist ELSE dist
                      /\ IF q.exc # NoExc
                         THEN /\ Except(q.exc, q.rd)
                              /\ UNCHANGED <<remaining, unit_no>>
                         ELSE /\ reader' = q.rd
                              /\ unit_no' = unit_no + 1
                              /\ IF TooFar(first, q.dist, window_pos)
                                 THEN /\ pc' = "returned" /\ result' = None
                                      /\ ret' = "far" /\ UNCHANGED remaining
                                 ELSE /\ pc' = "copy"
                                      /\ remaining' = m.length
                                      /\ UNCHANGED <<result, ret>>
  /\ UNCHANGED <<data, output, window, window_pos, first, lit, dict_bits,
                 fixture>>
  /\ UNCHANGED <<scanVars, tableVars, callerVars>>

\* A read position that is not taken modulo MAXWIN.
SrcPos_NoWrap(wpos, dst) == wpos - dst

\* The cell the copy loop reads next.
SrcPos(wpos, dst) == (wpos - dst) % MAXWIN

\* A copy loop that does not count its passes.
CopyByte_NoCount ==
  /\ pc = "copy"
  /\ remaining > 0
  /\ Emit(WinRead(window, SrcPos(window_pos, dist)))
  /\ remaining' = remaining
  /\ pc' = "copy"
  /\ UNCHANGED <<data, reader, lit, dict_bits, symbol, length, dist_extra,
                 dist, result, ret, unit_no, fixture>>
  /\ UNCHANGED <<scanVars, tableVars, callerVars>>

\* One iteration of the copy loop.
CopyByte ==
  /\ pc = "copy"
  /\ remaining > 0
  /\ Emit(WinRead(window, SrcPos(window_pos, dist)))
  /\ remaining' = remaining - 1
  /\ pc' = IF remaining = 1 THEN "loop" ELSE "copy"
  /\ UNCHANGED <<data, reader, lit, dict_bits, symbol, length, dist_extra,
                 dist, result, ret, unit_no, fixture>>
  /\ UNCHANGED <<scanVars, tableVars, callerVars>>

decompress_dcl == ReadHeader \/ FlagFails \/ Literal \/ Match \/ CopyByte

\* What one pass of the copy loop does to the output, the window, its
\* position and the first flag, as a function of them.
PushByte(st, b) ==
  [out |-> Append(st.out, b),
   win |-> WinWrite(st.win, st.wpos, b),
   wpos |-> Advance(st.wpos),
   first |-> IF Advance(st.wpos) = 0 THEN FALSE ELSE st.first]

\* The copy loop of one match run from its first pass to its last.
CopyRest ==
  /\ pc = "copy"
  /\ remaining > 0
  /\ remaining = length
  /\ \E st \in {ForRange(LAMBDA i, s :
                            PushByte(s, WinRead(s.win, SrcPos(s.wpos, dist))),
                          0, remaining,
                          [out |-> output, win |-> window, wpos |-> window_pos,
                           first |-> first])} :
       /\ output' = st.out
       /\ window' = st.win
       /\ window_pos' = st.wpos
       /\ first' = st.first
  /\ remaining' = 0
  /\ pc' = "loop"
  /\ UNCHANGED <<data, reader, lit, dict_bits, symbol, length, dist_extra,
                 dist, result, ret, unit_no, fixture>>
  /\ UNCHANGED <<scanVars, tableVars, callerVars>>


(***************************************************************************)
(* Inputs of decompress_dcl.  Arbitrary inputs are short byte strings over *)
(* a small alphabet; built inputs are streams encoded from a list of       *)
(* units (a literal, a match of a length and a distance, the end code) in  *)
(* the format the decoder reads, so that what the decoder recovers can be  *)
(* compared with what was encoded.                                         *)
(***************************************************************************)
MaxBody == 3

MaxUnits == 3

MaxLits == 3

SeqsUpTo(S, n) == UNION {[1..k -> S] : k \in 0..n}

LitHdr == {0, 1, 2}

DictHdr == {3, 4, 5, 6, 7}

BodyBytes == {0, 1, 129, 255}

ArbitraryInputs ==
  SeqsUpTo(LitHdr \cup DictHdr, 1)
    \cup {<<l, db>> \o body : l \in LitHdr, db \in DictHdr,
                              body \in SeqsUpTo(BodyBytes, MaxBody)}

\* n bits of v, least significant first.
ToBits(v, n) == [i \in 1..n |-> (v \div (2 ^ (i - 1))) % 2]

\* The first canonical code of length L: codes of one length are
\* consecutive, and the first of length L + 1 is twice the one that follows
\* the last of length L.
RECURSIVE FirstCode(_, _)
FirstCode(count, L) ==
  IF L = 1 THEN 0 ELSE 2 * (FirstCode(count, L - 1) + count[L - 1])

\* The bits of symbol s in the stream: its canonical code, most significant
\* bit first, each bit complemented.
CodeBits(lengths, s) ==
  LET L == lengths[s + 1]
      rank == Cardinality({t \in 0..(s - 1) : lengths[t + 1] = L})
      c == FirstCode(CountLengths(lengths), L) + rank
  IN  [i \in 1..L |-> 1 - ((c \div (2 ^ (L - i))) % 2)]

litLengths == Expand(LITLEN)

lenLengths == Expand(LENLEN)

distLengths == Expand(DISTLEN)

\* The length symbol whose range BASE[s] .. BASE[s] + 2^EXTRA[s] - 1 holds len.
LenSymbol(len) ==
  CHOOSE s \in 0..15 : BASE[s + 1] <= len /\ len < BASE[s + 1] + 2 ^ EXTRA[s + 1]

Lit(b) == [t |-> "lit", b |-> b, len |-> 0, dist |-> 0]

Mat(len, d) == [t |-> "match", b |-> 0, len |-> len, dist |-> d]

End == [t |-> "end", b |-> 0, len |-> END_CODE, dist |-> 0]

\* The number of raw distance bits of the format: 2 for a match of length
\* 2, the dictionary bits otherwise.
FormatDistBits(len, db) == IF len = 2 THEN 2 ELSE db

UnitBits(u, l, db) ==
  IF u.t = "lit"
  THEN <<0>> \o (IF l = 0 THEN ToBits(u.b, 8) ELSE CodeBits(litLengths, u.b))
  ELSE LET s == LenSymbol(u.len)
           head == <<1>> \o CodeBits(lenLengths, s)
                     \o ToBits(u.len - BASE[s + 1], EXTRA[s + 1])
       IN  IF u.t = "end" THEN head
           ELSE LET n == FormatDistBits(u.len, db)
                IN  head \o CodeBits(distLengths, (u.dist - 1) \div (2 ^ n))
                      \o ToBits((u.dist - 1) % (2 ^ n), n)

RECURSIVE StreamBits(_, _, _)
StreamBits(units, l, db) ==
  IF units = <<>> THEN <<>>
  ELSE UnitBits(Head(units), l, db) \o StreamBits(Tail(units), l, db)

\* Bits packed into bytes, the first bit in bit 0, the last byte padded
\* with zero bits.
PackBits(bs) ==
  [k \in 1..((Len(bs) + 7) \div 8) |->
     LET bit(j) == IF 8 * (k - 1) + j <= Len(bs) THEN bs[8 * (k - 1) + j] ELSE 0
     IN  bit(1) + 2 * bit(2) + 4 * bit(3) + 8 * bit(4) + 16 * bit(5)
           + 32 * bit(6) + 64 * bit(7) + 128 * bit(8)]

Encode(l, db, units) == <<l, db>> \o PackBits(StreamBits(units, l, db))

FixBytes == {65, 66, 67}

UnitSet ==
  {Lit(65), Mat(2, 1), Mat(20, 1), Mat(2, 17), Mat(3, 17), End}

\* Streams of literals closed by the end code, and streams of any units.
LiteralFixtures ==
  {[built |-> TRUE, lit |-> 0, dict_bits |-> db, units |-> Append(ls, End)] :
     db \in 4..6,
     ls \in {[i \in 1..Len(bs) |-> Lit(bs[i])] : bs \in SeqsUpTo(FixBytes, MaxLits)}}

UnitFixtures ==
  {[built |-> TRUE, lit |-> l, dict_bits |-> db, units |-> us] :
     l \in {0, 1}, db \in 4..6, us \in SeqsUpTo(UnitSet, MaxUnits)}

\* A stream that fills the window and goes on: two literals, copies of the
\* longest length until more than MAXWIN bytes are out, then copies at the
\* greatest distance and across the wrap.
WrapUnits ==
  <<Lit(65), Lit(66)>> \o [i \in 1..7 |-> Mat(518, 2)]
    \o <<Mat(465, 2), Mat(518, 2), Lit(67), Mat(3, 4096), Mat(4, 60), End>>

WrapFixtures ==
  {[built |-> TRUE, lit |-> 0, dict_bits |-> 6, units |-> us] :
     us \in {WrapUnits, <<>>}}

NoFixture == [built |-> FALSE, lit |-> 0, dict_bits |-> 0, units |-> <<>>]

\* The locals at the entry of decompress_dcl (those assigned later start at
\* 0, and are not read before they are assigned).
dclLocalsIdle ==
  /\ reader = BitReader
  /\ output = <<>>
  /\ window = <<>>
  /\ window_pos = 0
  /\ first = TRUE
  /\ lit = 0 /\ dict_bits = 0
  /\ symbol = 0 /\ length = 0 /\ dist_extra = 0 /\ dist = 0 /\ remaining = 0
  /\ ret = "none"
  /\ unit_no = 0

dclInit ==
  /\ \/ /\ fixture = NoFixture
        /\ data \in ArbitraryInputs
     \/ /\ fixture \in LiteralFixtures \cup UnitFixtures
        /\ data = Encode(fixture.lit, fixture.dict_bits, fixture.units)
  /\ pc = "start"
  /\ result = Unset
  /\ dclLocalsIdle

(***************************************************************************)
(* find_is3_archives                                                       *)
(***************************************************************************)
\* struct.unpack('<H', d[off:off+2]) and struct.unpack('<L', d[off:off+4])
U16(d, off) == d[off + 1] + 256 * d[off + 2]

U32(d, off) ==
  d[off + 1] + 256 * d[off + 2] + 65536 * d[off + 3] + 16777216 * d[off + 4]

\* d[a:b] for 0 <= a: the slice stops at the end of d.
Slice(d, a, b) == SubSeq(d, a + 1, IF b < Len(d) THEN b ELSE Len(d))

\* d.find(sub, start): the lowest index >= start where sub occurs, or -1.
Find(d, sub, start) ==
  LET hits == {p \in start..(Len(d) - Len(sub)) :
                 \A k \in 1..Len(sub) : d[p + k] = sub[k]}
  IN  IF hits = {} THEN 0 - 1
      ELSE CHOOSE p \in hits : \A q \in hits : p <= q

\* A bound test that wants one byte more after the header.
HeaderFits_Strict(p, d) == p + 51 < Len(d)

\* if pos + 0x33 <= len(data)
HeaderFits(p, d) == p + 51 <= Len(d)

ArchiveHeader(d, p) ==
  [offset |-> p,
   file_count |-> U16(d, p + 12),
   archive_len |-> U32(d, p + 18),
   name_offset |-> U32(d, p + 41),
   dir_count |-> U16(d, p + 49)]

\* One iteration of the scan loop that finds no further signature.
FindNone ==
  /\ pc = "find"
  /\ Find(data, IS3_SIGNATURE, pos) = 0 - 1
  /\ pos' = 0 - 1
  /\ pc' = "returned"
  /\ result' = [kind |-> "archives", value |-> archives]
  /\ UNCHANGED <<data, archives, fixture, tableVars>>
  /\ UNCHANGED <<reader, output, window, window_pos, first, lit, dict_bits,
                 symbol, length, dist_extra, dist, remaining, ret, unit_no>>
  /\ UNCHANGED callerVars

\* One iteration that finds a signature, with or without room for a header.
FindHit ==
  /\ pc = "find"
  /\ LET p == Find(data, IS3_SIGNATURE, pos)
     IN  /\ p # 0 - 1
         /\ archives' = IF HeaderFits(p, data)
                        THEN Append(archives, ArchiveHeader(data, p))
                        ELSE archives
         /\ pos' = p + 4
  /\ UNCHANGED <<data, pc, result, fixture, tableVars>>
  /\ UNCHANGED <<reader, output, window, window_pos, first, lit, dict_bits,
                 symbol, length, dist_extra, dist, remaining, ret, unit_no>>
  /\ UNCHANGED callerVars

find_is3_archives == FindNone \/ FindHit

(***************************************************************************)
(* parse_file_table                                                        *)
(***************************************************************************)
HEADER_SIZE == 255

Backslash == 92

\* bytes.decode('ascii', errors='ignore'): bytes above 127 are dropped.
DecodeAscii(bs) == SelectSeq(bs, LAMBDA b : b < 128)

\* str.rstrip('\x00')
RECURSIVE RStripNul(_)
RStripNul(str) ==
  IF str # <<>> /\ str[Len(str)] = 0
  THEN RStripNul(SubSeq(str, 1, Len(str) - 1))
  ELSE str

\* The entry of the function, up to the directory loop.
TableEntry ==
  /\ pc = "entry"
  /\ files' = <<>>
  /\ directories' = <<>>
  /\ pos' = archive_info.offset + archive_info.name_offset
  /\ idx' = 0
  /\ pc' = "dirs"
  /\ UNCHANGED <<data, archive_info, dir_for_file, result, fixture, archives>>
  /\ UNCHANGED <<reader, output, window, window_pos, first, lit, dict_bits,
                 symbol, length, dist_extra, dist, remaining, ret, unit_no>>
  /\ UNCHANGED callerVars

\* struct.unpack raises struct.error when its slice is short of n bytes.
CanUnpack(d, off, n) == off + n <= Len(d)

\* A directory loop that lets a record start 6 bytes later than the end.
DirTruncated_Late(p, d) == p > Len(d)

\* if pos + 6 > len(data): break
DirTruncated(p, d) == p + 6 > Len(d)

\* The three fields of a directory record can be unpacked.
DirFieldsOk(d, p) ==
  CanUnpack(d, p, 2) /\ CanUnpack(d, p + 2, 2) /\ CanUnpack(d, p + 4, 2)

\* The directory record at p.
DirectoryEntry(d, p) ==
  [name |-> RStripNul(DecodeAscii(Slice(d, p + 6, p + 6 + U16(d, p + 4)))),
   file_count |-> U16(d, p)]

\* One iteration of the directory loop.
DirStep ==
  /\ pc = "dirs"
  /\ idx < archive_info.dir_count
  /\ ~DirTruncated(pos, data)
  /\ IF DirFieldsOk(data, pos)
     THEN /\ directories' = Append(directories, DirectoryEntry(data, pos))
          /\ pos' = pos + U16(data, pos + 2)
          /\ idx' = idx + 1
          /\ UNCHANGED pc
     ELSE /\ pc' = "raised"
          /\ UNCHANGED <<directories, pos, idx>>
  /\ UNCHANGED <<data, archive_info, dir_for_file, files, result, fixture,
                 archives>>
  /\ UNCHANGED <<reader, output, window, window_pos, first, lit, dict_bits,
                 symbol, length, dist_extra, dist, remaining, ret, unit_no>>
  /\ UNCHANGED callerVars

\* One slot per directory, whatever its file_count.
Flatten_OnePerDir(dirs) == [k \in 1..Len(dirs) |-> dirs[k].name]

\* dir_for_file: each directory's name, file_count times, in order.
RECURSIVE Flatten(_)
Flatten(dirs) ==
  IF dirs = <<>> THEN <<>>
  ELSE Repeat(Head(dirs).name, Head(dirs).file_count) \o Flatten(Tail(dirs))

\* The directory loop ends (its range is exhausted or it breaks) and the
\* per-file directory list is built.
DirsEnd ==
  /\ pc = "dirs"
  /\ ~(idx < archive_info.dir_count) \/ DirTruncated(pos, data)
  /\ dir_for_file' = Flatten(directories)
  /\ idx' = 0
  /\ pc' = "files"
  /\ UNCHANGED <<data, archive_info, directories, files, pos, result, fixture,
                 archives>>
  /\ UNCHANGED <<reader, output, window, window_pos, first, lit, dict_bits,
                 symbol, length, dist_extra, dist, remaining, ret, unit_no>>
  /\ UNCHANGED callerVars

\* A file loop that asks for the first 7 bytes of a record only.
FileTruncated_Short(p, d) == p + 7 > Len(d)

\* if pos + 0x1E > len(data): break
FileTruncated(p, d) == p + 30 > Len(d)

\* The fields of a file record can be unpacked and its name_len indexed.
FileFieldsOk(d, p) ==
  /\ CanUnpack(d, p + 7, 4) /\ CanUnpack(d, p + 15, 2)
  /\ CanUnpack(d, p + 17, 2) /\ CanUnpack(d, p + 23, 2)
  /\ p + 29 < Len(d)

\* filename of the file record at p.
FileName(d, p) == DecodeAscii(Slice(d, p + 30, p + 30 + d[p + 29 + 1]))

\* full_path of the file of index n.
FullPath(dff, n, filename) ==
  IF n < Len(dff) /\ dff[n + 1] # <<>>
  THEN dff[n + 1] \o <<Backslash>> \o filename
  ELSE filename

FileRecord(d, p, dff, n) ==
  [name |-> FullPath(dff, n, FileName(d, p)),
   compressed_size |-> U32(d, p + 7),
   date |-> U16(d, p + 15),
   time |-> U16(d, p + 17)]

\* One iteration of the file loop.
FileStep ==
  /\ pc = "files"
  /\ idx < archive_info.file_count
  /\ ~FileTruncated(pos, data)
  /\ IF FileFieldsOk(data, pos)
     THEN /\ files' = Append(files, FileRecord(data, pos, dir_for_file, idx))
          /\ pos' = pos + U16(data, pos + 23)
          /\ idx' = idx + 1
          /\ UNCHANGED pc
     ELSE /\ pc' = "raised"
          /\ UNCHANGED <<files, pos, idx>>
  /\ UNCHANGED <<data, archive_info, directories, dir_for_file, result,
                 fixture, archives>>
  /\ UNCHANGED <<reader, output, window, window_pos, first, lit, dict_bits,
                 symbol, length, dist_extra, dist, remaining, ret, unit_no>>
  /\ UNCHANGED callerVars

\* An offset pass that starts at the table size, whatever the archive's
\* offset.
StartOffset_NoBase(info) == HEADER_SIZE

\* current_offset = archive_info.offset + header_size
StartOffset(info) == info.offset + HEADER_SIZE

\* An offset pass that assigns the size where it should add it.
NextOffset_Assign(current_offset, f) == f.compressed_size

\* current_offset += f.compressed_size
NextOffset(current_offset, f) == current_offset + f.compressed_size

\* The offset loop: each record gets current_offset, which then grows by
\* the record's compressed_size.
RECURSIVE OffsetPass(_, _)
OffsetPass(fs, current_offset) ==
  IF fs = <<>> THEN <<>>
  ELSE <<[name |-> Head(fs).name,
          compressed_size |-> Head(fs).compressed_size,
          date |-> Head(fs).date,
          time |-> Head(fs).time,
          compressed_offset |-> current_offset]>>
         \o OffsetPass(Tail(fs), NextOffset(current_offset, Head(fs)))

\* The file loop ends, the offsets are assigned and the function returns.
FilesEnd ==
  /\ pc = "files"
  /\ ~(idx < archive_info.file_count) \/ FileTruncated(pos, data)
  /\ files' = OffsetPass(files, StartOffset(archive_info))
  /\ pc' = "returned"
  /\ result' = [kind |-> "table",
                value |-> <<OffsetPass(files, StartOffset(archive_info)),
                            directories>>]
  /\ UNCHANGED <<data, archive_info, directories, dir_for_file, pos, idx,
                 fixture, archives>>
  /\ UNCHANGED <<reader, output, window, window_pos, first, lit, dict_bits,
                 symbol, length, dist_extra, dist, remaining, ret, unit_no>>
  /\ UNCHANGED callerVars

parse_file_table == TableEntry \/ DirStep \/ DirsEnd \/ FileStep \/ FilesEnd

(***************************************************************************)
(* extract_archive.  It calls parse_file_table and, for every record,      *)
(* decompress_dcl: the call sets the callee's position pc and waits in     *)
(* ea_pc until the callee has returned.  A path is the pair of the output  *)
(* directory and the name below it; the output directory is the name <<>>. *)
(***************************************************************************)
SlashChar == 47

\* name.replace('\\', '/')
ReplaceBackslash(name) ==
  [k \in 1..Len(name) |-> IF name[k] = Backslash THEN SlashChar ELSE name[k]]

\* '/' in name
HasSlash(name) == \E k \in 1..Len(name) : name[k] = SlashChar

\* head.rstrip('/'), for a head that is not made of separators only.
RStripSlash(head) ==
  SubSeq(head, 1, CHOOSE k \in 1..Len(head) :
                    /\ head[k] # SlashChar
                    /\ \A j \in (k + 1)..Len(head) : head[j] = SlashChar)

\* os.path.dirname(name): what precedes the last separator, without the
\* separators it ends with unless it is made of separators only.
Dirname(name) ==
  LET last == CHOOSE k \in 1..Len(name) :
                /\ name[k] = SlashChar
                /\ \A j \in (k + 1)..Len(name) : name[j] # SlashChar
      head == SubSeq(name, 1, last)
  IN  IF \A k \in 1..Len(head) : head[k] = SlashChar THEN head
      ELSE RStripSlash(head)

\* The directories os.makedirs creates for dir: dir and what precedes each
\* of its separators.
Parents(dir) ==
  {dir} \cup {SubSeq(dir, 1, k - 1) : k \in {j \in 1..Len(dir) : dir[j] = SlashChar}}

\* The pieces of a path string between its separators.
RECURSIVE Components(_)
Components(name) ==
  IF ~HasSlash(name) THEN <<name>>
  ELSE LET k == CHOOSE i \in 1..Len(name) :
                  /\ name[i] = SlashChar
                  /\ \A j \in 1..(i - 1) : name[j] # SlashChar
       IN  <<SubSeq(name, 1, k - 1)>> \o Components(SubSeq(name, k + 1, Len(name)))

\* The names "." and "..".
DOT == <<46>>

DOTDOT == <<46, 46>>

\* The directory the system reaches from the directory loc by the
\* components comps: an empty component and "." stay, ".." goes to the
\* parent (the root is its own parent), a name goes down.  A location is
\* the sequence of names from the root of the file system; no name is a
\* symbolic link.
RECURSIVE Walk(_, _)
Walk(loc, comps) ==
  IF comps = <<>> THEN loc
  ELSE LET c == Head(comps)
       IN  Walk(IF c = <<>> \/ c = DOT THEN loc
                ELSE IF c = DOTDOT
                THEN SubSeq(loc, 1, Len(loc) - 1)
                ELSE Append(loc, c),
                Tail(comps))

\* Where the output directory out is: a directory of its own in the root of
\* the file system, named by out.
OutputRoot(out) == <<<<out>>>>

\* The location of os.path.join(output_dir, name): a name that begins with
\* a separator replaces output_dir, any other name is taken below it.
Resolve(out, name) ==
  Walk(IF name # <<>> /\ name[1] = SlashChar THEN <<>> ELSE OutputRoot(out),
       Components(name))

\* loc is the location root or lies above it.
NotBelow(loc, root) == Len(loc) <= Len(root) /\ SubSeq(root, 1, Len(loc)) = loc

\* loc lies below the location root.
Under(loc, root) == Len(loc) > Len(root) /\ SubSeq(loc, 1, Len(root)) = root

\* os.makedirs(..., exist_ok=True) raises when a file is in the way.
MakedirsFails(dsk, out, dir) ==
  \E q \in Parents(dir) :
    \E f \in DOMAIN dsk : Resolve(f[1], f[2]) = Resolve(out, q)

\* A path string that names a directory whatever is on the disk: it is
\* empty or ends with a separator, with "." or with "..".
NamesDirectory(name) ==
  Components(name)[Len(Components(name))]
    \in {<<>>, DOT, DOTDOT}

\* open(outpath, 'wb') raises when outpath is a directory.
OpenFails(mk, out, name) ==
  \/ NamesDirectory(name)
  \/ NotBelow(Resolve(out, name), OutputRoot(out))
  \/ \E m \in mk : Resolve(m[1], m[2]) = Resolve(out, name)

\* data[offset:offset + size]
Payload(d, f) ==
  Slice(d, f.compressed_offset, f.compressed_offset + f.compressed_size)

\* A test that takes any byte string, the empty one too, as a success.
Truthy_NotNone(r) == r.kind = "bytes"

\* A test that looks at what the decoder emitted, not at what it returned.
Truthy_Emitted(r) == output # <<>>

\* if decompressed: None and the empty byte string are both false.
Truthy(r) == r.kind = "bytes" /\ r.value # <<>>

\* The call of parse_file_table.
ExtractCall ==
  /\ UNCHANGED <<mainVars, patchVars, toolVars>>
  /\ ea_pc = "entry"
  /\ ea_pc' = "parse"
  /\ data' = ea_data
  /\ pc' = "entry"
  /\ result' = Unset
  /\ UNCHANGED <<ea_data, output_dir, file_no, extracted, failed, disk, made,
                 runs>>
  /\ UNCHANGED <<scanVars, tableVars, fixture>>
  /\ UNCHANGED <<reader, output, window, window_pos, first, lit, dict_bits,
                 symbol, length, dist_extra, dist, remaining, ret, unit_no>>

\* parse_file_table has returned: the output directory is made and the
\* counters start at 0.
ExtractBegin ==
  /\ UNCHANGED <<mainVars, patchVars, toolVars>>
  /\ ea_pc = "parse"
  /\ pc = "returned" /\ result.kind = "table"
  /\ made' = made \cup {<<output_dir, <<>>>>}
  /\ extracted' = 0
  /\ failed' = 0
  /\ file_no' = 0
  /\ ea_pc' = "loop"
  /\ UNCHANGED <<ea_data, output_dir, disk, runs>>
  /\ UNCHANGED <<scanVars, tableVars, fixture, data, pc, result>>
  /\ UNCHANGED <<reader, output, window, window_pos, first, lit, dict_bits,
                 symbol, length, dist_extra, dist, remaining, ret, unit_no>>

\* The head of one iteration of the loop over the records, up to the call
\* of decompress_dcl, whose frame is new.
ExtractFile ==
  /\ UNCHANGED <<mainVars, patchVars, toolVars>>
  /\ ea_pc = "loop"
  /\ file_no < Len(files)
  /\ \E name \in {ReplaceBackslash(files[file_no + 1].name)} :
       IF HasSlash(name) /\ MakedirsFails(disk, output_dir, Dirname(name))
       THEN /\ ea_pc' = "raised"
            /\ UNCHANGED <<made, data, pc, result, ret, unit_no, symbol,
                           length, dist_extra, dist, remaining>>
       ELSE /\ made' = IF HasSlash(name)
                       THEN made \cup {<<output_dir, q>> : q \in Parents(Dirname(name))}
                       ELSE made
            /\ data' = Payload(ea_data, files[file_no + 1])
            /\ pc' = "start"
            /\ result' = Unset
            /\ ret' = "none"
            /\ unit_no' = 0
            /\ symbol' = 0 /\ length' = 0 /\ dist_extra' = 0 /\ dist' = 0
            /\ remaining' = 0
            /\ ea_pc' = "decode"
  /\ UNCHANGED <<ea_data, output_dir, file_no, extracted, failed, disk, runs>>
  /\ UNCHANGED <<scanVars, tableVars, fixture>>
  /\ UNCHANGED <<reader, output, window, window_pos, first, lit, dict_bits>>

\* decompress_dcl has returned: the rest of the iteration.
ExtractDone ==
  /\ UNCHANGED <<mainVars, patchVars, toolVars>>
  /\ ea_pc = "decode"
  /\ pc \in {"returned", "raised"}
  /\ \E name \in {ReplaceBackslash(files[file_no + 1].name)} :
       IF pc = "raised"
       THEN ea_pc' = "raised" /\ UNCHANGED <<disk, extracted, failed, file_no>>
       ELSE IF Truthy(result)
       THEN IF OpenFails(made, output_dir, name)
            THEN /\ ea_pc' = "raised"
                 /\ UNCHANGED <<disk, extracted, failed, file_no>>
            ELSE /\ disk' = [q \in (DOMAIN disk) \cup {<<output_dir, name>>} |->
                               IF q = <<output_dir, name>> THEN result.value
                               ELSE disk[q]]
                 /\ extracted' = extracted + 1
                 /\ file_no' = file_no + 1
                 /\ ea_pc' = "loop"
                 /\ UNCHANGED failed
       ELSE /\ failed' = failed + 1
            /\ file_no' = file_no + 1
            /\ ea_pc' = "loop"
            /\ UNCHANGED <<disk, extracted>>
  /\ data' = ea_data
  /\ runs' = [runs EXCEPT !.seen =
                [d \in (DOMAIN runs.seen) \cup {data} |->
                   IF d \in DOMAIN runs.seen THEN runs.seen[d] ELSE result]]
  /\ UNCHANGED <<ea_data, output_dir, made>>
  /\ UNCHANGED <<scanVars, tableVars, fixture, pc, result>>
  /\ UNCHANGED <<reader, output, window, window_pos, first, lit, dict_bits,
                 symbol, length, dist_extra, dist, remaining, ret, unit_no>>

\* return extracted, failed
ExtractReturn ==
  /\ UNCHANGED <<mainVars, patchVars, toolVars>>
  /\ ea_pc = "loop"
  /\ ~(file_no < Len(files))
  /\ ea_pc' = "returned"
  /\ result' = [kind |-> "counts", value |-> <<extracted, failed>>]
  /\ UNCHANGED <<ea_data, output_dir, file_no, extracted, failed, disk, made,
                 runs>>
  /\ UNCHANGED <<scanVars, tableVars, fixture, data, pc>>
  /\ UNCHANGED <<reader, output, window, window_pos, first, lit, dict_bits,
                 symbol, length, dist_extra, dist, remaining, ret, unit_no>>

extract_archive ==
  ExtractCall \/ ExtractBegin \/ ExtractFile \/ ExtractDone \/ ExtractReturn

\* What is on the disk under the output directory out.
Written(dsk, out) ==
  [name \in {q[2] : q \in {r \in DOMAIN dsk : r[1] = out}} |-> dsk[<<out, name>>]]

\* The caller that extracts the same buffer and header once more, into a
\* second output directory, keeping what the first call returned.
ExtractAgain ==
  /\ UNCHANGED <<mainVars, patchVars, toolVars>>
  /\ ea_pc = "returned"
  /\ runs.first = Unset
  /\ runs' = [runs EXCEPT !.first = result]
  /\ output_dir' = output_dir + 1
  /\ ea_pc' = "entry"
  /\ UNCHANGED <<ea_data, file_no, extracted, failed, disk, made>>
  /\ UNCHANGED <<scanVars, tableVars, fixture, data, pc, result>>
  /\ UNCHANGED <<reader, output, window, window_pos, first, lit, dict_bits,
                 symbol, length, dist_extra, dist, remaining, ret, unit_no>>

(***************************************************************************)
(* main of is3extract.py.  argv[1] is the program's name, so sys.argv[k]   *)
(* is argv[k + 1].  The one file there is to read is InputFile, whose      *)
(* content the fixture gives.  An exception nothing catches ends the       *)
(* interpreter with status 1.                                              *)
(***************************************************************************)
\* archive_filter = None
NoFilter == [kind |-> "None", value |-> 0]

InputFile == "in.exe"

\* os.path.exists(input_file)
Exists(name) == name = InputFile

\* int(s) for the words the command lines are made of: ValueError for one
\* that is no number.
IntWords == [w \in {"0", "1", "5", "-1"} |->
               IF w = "0" THEN 0 ELSE IF w = "1" THEN 1
               ELSE IF w = "5" THEN 5 ELSE 0 - 1]

IsInt(w) == w \in DOMAIN IntWords

\* x in sys.argv, and sys.argv.index(x)
InArgv(av, x) == \E k \in 1..Len(av) : av[k] = x

ArgvIndex(av, x) ==
  (CHOOSE k \in 1..Len(av) : av[k] = x /\ \A j \in 1..(k - 1) : av[j] # x) - 1

\* The word after --archive, when there is one.
HasFilterWord(av) == InArgv(av, "--archive") /\ ArgvIndex(av, "--archive") + 1 < Len(av)

FilterWord(av) == av[ArgvIndex(av, "--archive") + 2]

ExitStatus(n) == [kind |-> "exit", value |-> n]

\* sys.exit(n), and the end of the interpreter on an uncaught exception.
Exit(n) == m_pc' = "exited" /\ exit_code' = ExitStatus(n)

Uncaught == m_pc' = "raised" /\ exit_code' = ExitStatus(1)

\* A loop that takes the filter for the number of archives to extract.
Filtered_Below(flt, n) == flt.kind = "int" /\ n >= flt.value

\* if archive_filter is not None and i != archive_filter: continue
Filtered(flt, n) == flt.kind = "int" /\ n # flt.value

\* The directory an archive is extracted into: <<>> is output_dir itself.
ArchOutput(n, count, flt) ==
  IF count > 1 /\ flt.kind = "None" THEN <<"archive_", n>> ELSE <<>>

\* From the entry of main to the call of find_is3_archives.
MainStart ==
  /\ m_pc = "start"
  /\ IF Len(argv) < 3
     THEN /\ Exit(1)
          /\ UNCHANGED <<list_only, archive_filter, m_data, data, pc, pos,
                         archives, result>>
     ELSE /\ list_only' = InArgv(argv, "--list")
          /\ IF HasFilterWord(argv) /\ ~IsInt(FilterWord(argv))
             THEN /\ Uncaught
                  /\ UNCHANGED <<archive_filter, m_data, data, pc, pos,
                                 archives, result>>
             ELSE /\ archive_filter' =
                       IF HasFilterWord(argv)
                       THEN [kind |-> "int", value |-> IntWords[FilterWord(argv)]]
                       ELSE NoFilter
                  /\ IF ~Exists(argv[2])
                     THEN /\ Exit(1)
                          /\ UNCHANGED <<m_data, data, pc, pos, archives,
                                         result>>
                     ELSE /\ m_data' = fixture.buffer
                          /\ data' = fixture.buffer
                          /\ pc' = "find"
                          /\ pos' = 0
                          /\ archives' = <<>>
                          /\ result' = Unset
                          /\ m_pc' = "scan"
                          /\ UNCHANGED exit_code
  /\ UNCHANGED <<argv, m_archives, arch_no, total_extracted, total_failed,
                 calls>>
  /\ UNCHANGED <<tableVars, extractVars, patchVars, toolVars, fixture>>
  /\ UNCHANGED <<reader, output, window, window_pos, first, lit, dict_bits,
                 symbol, length, dist_extra, dist, remaining, ret, unit_no>>

\* find_is3_archives has returned.
MainFound ==
  /\ m_pc = "scan"
  /\ pc = "returned" /\ result.kind = "archives"
  /\ m_archives' = result.value
  /\ arch_no' = 0
  /\ IF result.value = <<>>
     THEN Exit(1)
     ELSE /\ m_pc' = IF list_only THEN "list" ELSE "extract"
          /\ UNCHANGED exit_code
  /\ total_extracted' = 0
  /\ total_failed' = 0
  /\ UNCHANGED <<argv, m_data, list_only, archive_filter, calls>>
  /\ UNCHANGED <<scanVars, tableVars, extractVars, patchVars, toolVars, fixture, data,
                 pc, result>>
  /\ UNCHANGED <<reader, output, window, window_pos, first, lit, dict_bits,
                 symbol, length, dist_extra, dist, remaining, ret, unit_no>>

\* One archive of the listing loop: the call of parse_file_table.
MainListCall ==
  /\ m_pc = "list"
  /\ arch_no < Len(m_archives)
  /\ archive_info' = m_archives[arch_no + 1]
  /\ data' = m_data
  /\ pc' = "entry"
  /\ result' = Unset
  /\ m_pc' = "listing"
  /\ UNCHANGED <<argv, m_data, list_only, archive_filter, m_archives, arch_no,
                 total_extracted, total_failed, exit_code, calls>>
  /\ UNCHANGED <<scanVars, extractVars, patchVars, toolVars, fixture, directories,
                 dir_for_file, files, idx>>
  /\ UNCHANGED <<reader, output, window, window_pos, first, lit, dict_bits,
                 symbol, length, dist_extra, dist, remaining, ret, unit_no>>

\* parse_file_table has returned: the archive's lines are printed.
MainListed ==
  /\ m_pc = "listing"
  /\ pc \in {"returned", "raised"}
  /\ IF pc = "raised"
     THEN Uncaught /\ UNCHANGED arch_no
     ELSE /\ arch_no' = arch_no + 1
          /\ m_pc' = "list"
          /\ UNCHANGED exit_code
  /\ UNCHANGED <<argv, m_data, list_only, archive_filter, m_archives,
                 total_extracted, total_failed, calls>>
  /\ UNCHANGED <<scanVars, tableVars, extractVars, patchVars, toolVars, fixture, data,
                 pc, result>>
  /\ UNCHANGED <<reader, output, window, window_pos, first, lit, dict_bits,
                 symbol, length, dist_extra, dist, remaining, ret, unit_no>>

\* if list_only: sys.exit(0)
MainListExit ==
  /\ m_pc = "list"
  /\ ~(arch_no < Len(m_archives))
  /\ Exit(0)
  /\ UNCHANGED <<argv, m_data, list_only, archive_filter, m_archives, arch_no,
                 total_extracted, total_failed, calls>>
  /\ UNCHANGED <<scanVars, tableVars, extractVars, patchVars, toolVars, fixture, data,
                 pc, result>>
  /\ UNCHANGED <<reader, output, window, window_pos, first, lit, dict_bits,
                 symbol, length, dist_extra, dist, remaining, ret, unit_no>>

\* One archive of the extraction loop: it is skipped, or extract_archive
\* is called for it.
MainExtractCall ==
  /\ m_pc = "extract"
  /\ arch_no < Len(m_archives)
  /\ IF Filtered(archive_filter, arch_no)
     THEN /\ arch_no' = arch_no + 1
          /\ UNCHANGED <<m_pc, calls, ea_pc, ea_data, archive_info, output_dir>>
     ELSE /\ ea_data' = m_data
          /\ archive_info' = m_archives[arch_no + 1]
          /\ output_dir' = ArchOutput(arch_no, Len(m_archives), archive_filter)
          /\ ea_pc' = "entry"
          /\ calls' = Append(calls,
                             [index |-> arch_no,
                              dir |-> ArchOutput(arch_no, Len(m_archives),
                                                 archive_filter)])
          /\ m_pc' = "extracting"
          /\ UNCHANGED arch_no
  /\ UNCHANGED <<argv, m_data, list_only, archive_filter, m_archives,
                 total_extracted, total_failed, exit_code>>
  /\ UNCHANGED <<file_no, extracted, failed, disk, made, runs>>
  /\ UNCHANGED <<scanVars, patchVars, toolVars, fixture, data, pc, result, directories,
                 dir_for_file, files, idx>>
  /\ UNCHANGED <<reader, output, window, window_pos, first, lit, dict_bits,
                 symbol, length, dist_extra, dist, remaining, ret, unit_no>>

\* extract_archive has returned: its counts are added to the totals.
MainExtracted ==
  /\ m_pc = "extracting"
  /\ ea_pc \in {"returned", "raised"}
  /\ IF ea_pc = "raised"
     THEN Uncaught /\ UNCHANGED <<arch_no, total_extracted, total_failed>>
     ELSE /\ total_extracted' = total_extracted + result.value[1]
          /\ total_failed' = total_failed + result.value[2]
          /\ arch_no' = arch_no + 1
          /\ m_pc' = "extract"
          /\ UNCHANGED exit_code
  /\ ea_pc' = "idle"
  /\ UNCHANGED <<argv, m_data, list_only, archive_filter, m_archives, calls>>
  /\ UNCHANGED <<ea_data, output_dir, file_no, extracted, failed, disk, made,
                 runs>>
  /\ UNCHANGED <<scanVars, tableVars, patchVars, toolVars, fixture, data, pc, result>>
  /\ UNCHANGED <<reader, output, window, window_pos, first, lit, dict_bits,
                 symbol, length, dist_extra, dist, remaining, ret, unit_no>>

\* The summary line; main returns and the interpreter ends with status 0.
MainDone ==
  /\ m_pc = "extract"
  /\ ~(arch_no < Len(m_archives))
  /\ Exit(0)
  /\ UNCHANGED <<argv, m_data, list_only, archive_filter, m_archives, arch_no,
                 total_extracted, total_failed, calls>>
  /\ UNCHANGED <<scanVars, tableVars, extractVars, patchVars, toolVars, fixture, data,
                 pc, result>>
  /\ UNCHANGED <<reader, output, window, window_pos, first, lit, dict_bits,
                 symbol, length, dist_extra, dist, remaining, ret, unit_no>>

main ==
  \/ MainStart \/ MainFound \/ MainListCall \/ MainListed \/ MainListExit
  \/ MainExtractCall \/ MainExtracted \/ MainDone

(***************************************************************************)
(* sc2knet_patcher.py: bsdiff_apply, md5 and patch_file.  The file system  *)
(* is disk, here a map from path names to contents.                        *)
(***************************************************************************)
\* The place in a sequence of n items that Python's index k reads or
\* writes, counted from 1; 0 when it raises IndexError.
PyIndex(k, n) ==
  IF 0 <= k /\ k < n THEN k + 1
  ELSE IF k < 0 /\ 0 - n <= k THEN n + k + 1
  ELSE 0

\* diff_mods.get(k, 0)
ModAt(diff_mods, k) == IF k \in DOMAIN diff_mods THEN diff_mods[k] ELSE 0

\* old_data[old_pos + i] if (old_pos + i) < len(old_data) else 0
OldByte(old, k) ==
  IF k < Len(old)
  THEN [exc |-> PyIndex(k, Len(old)) = 0,
        val |-> IF PyIndex(k, Len(old)) = 0 THEN 0 ELSE old[PyIndex(k, Len(old))]]
  ELSE [exc |-> FALSE, val |-> 0]

\* new_data[k] = v
Store(st, k, v) ==
  IF PyIndex(k, Len(st.new)) = 0 THEN [st EXCEPT !.exc = "IndexError"]
  ELSE [st EXCEPT !.new[PyIndex(k, Len(st.new))] = v]

\* One pass of the first inner loop: a byte of the old file plus its delta.
AddByte(old, diff_mods, i, st) ==
  IF st.exc # "none" THEN st
  ELSE IF OldByte(old, st.old_pos + i).exc THEN [st EXCEPT !.exc = "IndexError"]
  ELSE Store(st, st.new_pos + i,
             (OldByte(old, st.old_pos + i).val
                + ModAt(diff_mods, st.diff_pos + i)) % 256)

\* One pass of the second inner loop: a byte of the extra block.
CopyExtra(extra, i, st) ==
  IF st.exc # "none" THEN st
  ELSE IF PyIndex(st.extra_pos + i, Len(extra)) = 0
  THEN [st EXCEPT !.exc = "IndexError"]
  ELSE Store(st, st.new_pos + i, extra[PyIndex(st.extra_pos + i, Len(extra))])

AfterAdd(st, add_len) ==
  IF st.exc # "none" THEN st
  ELSE [st EXCEPT !.diff_pos = @ + add_len, !.new_pos = @ + add_len,
                  !.old_pos = @ + add_len]

AfterCopy(st, copy_len, seek_offset) ==
  IF st.exc # "none" THEN st
  ELSE [st EXCEPT !.extra_pos = @ + copy_len, !.new_pos = @ + copy_len,
                  !.old_pos = @ + seek_offset]

\* The body of the loop over the control triples.
ApplyTriple(old, diff_mods, extra, t, st) ==
  AfterCopy(
    ForRange(LAMBDA i, s : CopyExtra(extra, i, s), 0, t[2],
             AfterAdd(ForRange(LAMBDA i, s : AddByte(old, diff_mods, i, s),
                               0, t[1], st),
                      t[1])),
    t[2], t[3])

bsdiff_apply(old, new_size, triples, diff_mods, extra) ==
  ForRange(LAMBDA k, st : ApplyTriple(old, diff_mods, extra, triples[k + 1], st),
           0, Len(triples),
           [exc |-> "none", new |-> Repeat(0, new_size), old_pos |-> 0,
            new_pos |-> 0, diff_pos |-> 0, extra_pos |-> 0])

\* hashlib.md5 is not part of the repository.  What the code uses of it is
\* that it is a function of the data alone; it stands here as a digest of
\* DigestSpace values, so that different contents can have the same digest.
DigestSpace == 16

RECURSIVE ByteSum(_)
ByteSum(d) == IF d = <<>> THEN 0 ELSE Head(d) + ByteSum(Tail(d))

md5(d) == (ByteSum(d) + 7 * Len(d)) % DigestSpace

\* filepath.with_suffix(filepath.suffix + ".old")
BackupPath(filepath) == filepath \o ".old"

\* A verification that accepts every result.
Mismatch_Never(hash, expected) == FALSE

\* if new_hash != patch_data["post_md5"]
Mismatch(hash, expected) == hash # expected

\* A test that takes the backup for missing every time.
BackupMissing_Always(dsk, path) == TRUE

\* if not backup_path.exists()
BackupMissing(dsk, path) == path \notin DOMAIN dsk

Remove(dsk, path) == [q \in (DOMAIN dsk) \ {path} |-> dsk[q]]

WriteBytes(dsk, path, content) ==
  [q \in (DOMAIN dsk) \cup {path} |-> IF q = path THEN content ELSE dsk[q]]

\* filepath.rename(backup_path)
Rename(dsk, from, to) == WriteBytes(Remove(dsk, from), to, dsk[from])

PatchReturn(v) == pf_pc' = "returned" /\ result' = [kind |-> "bool", value |-> v]

patchFrame ==
  <<data, reader, output, window, window_pos, first, lit, dict_bits, symbol,
    length, dist_extra, dist, remaining, pc, ret, unit_no, fixture, scanVars,
    tableVars, mainVars, ea_pc, ea_data, output_dir, file_no, extracted,
    failed, made, runs, pf_args, toolVars>>

\* The file is looked for, read and hashed.
PatchOpen ==
  /\ pf_pc = "entry"
  /\ IF pf_args.filepath \notin DOMAIN disk
     THEN PatchReturn(FALSE) /\ UNCHANGED old_data
     ELSE /\ old_data' = disk[pf_args.filepath]
          /\ IF md5(disk[pf_args.filepath]) = pf_args.patch_data.post_md5
             THEN PatchReturn(TRUE)
             ELSE pf_pc' = "apply" /\ UNCHANGED result
  /\ UNCHANGED <<disk, new_data, patchFrame>>

\* new_data = bsdiff_apply(...)
PatchApply ==
  /\ pf_pc = "apply"
  /\ \E r \in {bsdiff_apply(old_data, pf_args.patch_data.new_size,
                            pf_args.patch_data.triples,
                            pf_args.patch_data.diff_mods,
                            pf_args.patch_data.extra)} :
       IF r.exc # "none"
       THEN pf_pc' = "raised" /\ UNCHANGED new_data
       ELSE pf_pc' = "verify" /\ new_data' = r.new
  /\ UNCHANGED <<disk, old_data, result, patchFrame>>

\* The result is hashed and compared with post_md5.
PatchVerify ==
  /\ pf_pc = "verify"
  /\ IF Mismatch(md5(new_data), pf_args.patch_data.post_md5)
     THEN PatchReturn(FALSE)
     ELSE /\ pf_pc' = IF pf_args.backup THEN "backup" ELSE "write"
          /\ UNCHANGED result
  /\ UNCHANGED <<disk, old_data, new_data, patchFrame>>

\* The original is renamed to the backup path, or removed when a backup
\* is there already.
PatchBackup ==
  /\ pf_pc = "backup"
  /\ disk' = IF BackupMissing(disk, BackupPath(pf_args.filepath))
             THEN Rename(disk, pf_args.filepath, BackupPath(pf_args.filepath))
             ELSE Remove(disk, pf_args.filepath)
  /\ pf_pc' = "write"
  /\ UNCHANGED <<old_data, new_data, result, patchFrame>>

\* filepath.write_bytes(new_data); return True
PatchWrite ==
  /\ pf_pc = "write"
  /\ disk' = WriteBytes(disk, pf_args.filepath, new_data)
  /\ PatchReturn(TRUE)
  /\ UNCHANGED <<old_data, new_data, patchFrame>>

patch_file == PatchOpen \/ PatchApply \/ PatchVerify \/ PatchBackup \/ PatchWrite

(***************************************************************************)
(* Callers of the pure parts: a BitReader that is read again and again,    *)
(* and later a table that is built and decoded with.  calls is the list of *)
(* the calls that returned, pc the caller's position.                      *)
(***************************************************************************)
pureFrame ==
  <<data, output, window, window_pos, first, lit, dict_bits, symbol, length,
    dist_extra, dist, remaining, ret, unit_no, fixture, scanVars, tableVars,
    extractVars, patchVars, toolVars, m_pc, argv, m_data, list_only, archive_filter,
    m_archives, arch_no, total_extracted, total_failed, exit_code>>

MaxCalls == 3

NeedSet == {1, 3, 5, 8, 13, 16}

\* reader.bits(need) on the reader as the calls before left it.
BitsCall ==
  /\ pc = "reader"
  /\ Len(calls) < MaxCalls
  /\ \E need \in NeedSet :
       \E r \in {bits(data, reader, need)} :
         /\ reader' = r.rd
         /\ IF r.exc # NoExc
            THEN /\ pc' = "raised"
                 /\ result' = [kind |-> "exc", value |-> r.exc, need |-> need]
                 /\ UNCHANGED calls
            ELSE /\ calls' = Append(calls, [need |-> need, val |-> r.val])
                 /\ result' = [kind |-> "int", value |-> r.val, need |-> need]
                 /\ UNCHANGED pc
  /\ UNCHANGED pureFrame

\* HuffmanTable(rep) for the fixture's packed lengths.
HuffBuild ==
  /\ pc = "build"
  /\ \E h \in {HuffmanTable(fixture.rep)} :
       /\ result' = [kind |-> "huffman", value |-> h]
       /\ pc' = IF h.exc # NoExc THEN "raised" ELSE "reader"
  /\ UNCHANGED <<reader, calls, pureFrame>>

\* The bits a reader has delivered.
Delivered(rd) == 8 * rd.pos - rd.bitcnt

\* table.decode(reader) on the reader as the calls before left it.
HuffDecode ==
  /\ pc = "reader"
  /\ result.kind = "huffman"
  /\ Len(calls) < MaxCalls
  /\ \E r \in {decode(result.value, data, reader)} :
       /\ reader' = r.rd
       /\ IF r.exc # NoExc
          THEN /\ pc' = r.exc
               /\ UNCHANGED calls
          ELSE /\ calls' = Append(calls, [need |-> Delivered(r.rd) - Delivered(reader),
                                          val |-> r.val])
               /\ UNCHANGED pc
  /\ UNCHANGED <<result, pureFrame>>

(***************************************************************************)
(* apply_patches of patch_sc2k_v11.py and the two patch tables it is given.*)
(* A patch is its offset and its two byte strings.  The files the tables   *)
(* are for are too long to be kept whole: a bytearray is its length len    *)
(* and its bytes at, a function of the offsets the model keeps, which are  *)
(* those the patches of the table cover and the byte before and after      *)
(* each of them.                                                           *)
(***************************************************************************)
SERVER_V11_PATCHES ==
  <<
    [offset |-> 16036, original |-> <<116, 16>>, patched |-> <<235, 16>>],
    [offset |-> 71414, original |-> <<15, 132, 163, 0, 0, 0>>, patched |->
       <<233, 164, 0, 0, 0, 144>>],
    [offset |-> 76136, original |-> <<15, 132, 208, 0, 0, 0>>, patched |->
       <<233, 209, 0, 0, 0, 144>>],
    [offset |-> 483784, original |-> <<83>>, patched |-> <<89>>],
    [offset |-> 483804, original |-> <<83>>, patched |-> <<89>>],
    [offset |-> 483828, original |-> <<83>>, patched |-> <<89>>],
    [offset |-> 483848, original |-> <<83>>, patched |-> <<89>>],
    [offset |-> 3899, original |-> <<106, 255>>, patched |-> <<106, 0>>],
    [offset |-> 46688, original |-> <<106, 255>>, patched |-> <<106, 0>>],
    [offset |-> 131339, original |-> <<106, 255>>, patched |-> <<106, 0>>],
    [offset |-> 262048, original |-> <<106, 255>>, patched |-> <<106, 0>>],
    [offset |-> 120329, original |-> <<86, 104, 112, 227, 65, 0, 232, 158,
       158, 2, 0, 106, 0, 139, 70, 120, 106, 0, 139, 61, 244, 154, 72, 0>>,
       patched |-> <<139, 70, 120, 104, 5, 84, 71, 0, 106, 0, 104, 128, 1, 0,
       0, 80, 255, 21, 244, 154, 72, 0, 235, 127>>],
    [offset |-> 473093, original |-> <<0, 0, 0, 0, 0, 0, 0, 0, 0>>, patched
       |-> <<73, 110, 116, 101, 114, 110, 101, 116, 0>>]
  >>

CLIENT_V11_PATCHES ==
  <<
    [offset |-> 215164, original |-> <<116, 57>>, patched |-> <<235, 57>>],
    [offset |-> 231360, original |-> <<116, 65>>, patched |-> <<235, 65>>],
    [offset |-> 411154, original |-> <<15, 133, 139, 0, 0, 0>>, patched |->
       <<233, 140, 0, 0, 0, 144>>],
    [offset |-> 1268804, original |-> <<83>>, patched |-> <<88>>],
    [offset |-> 1268828, original |-> <<83>>, patched |-> <<88>>],
    [offset |-> 1268856, original |-> <<83>>, patched |-> <<88>>],
    [offset |-> 1268880, original |-> <<83>>, patched |-> <<88>>],
    [offset |-> 203515, original |-> <<106, 255>>, patched |-> <<106, 0>>]
  >>

\* data[a:b] of a bytearray.
ByteSlice(d, a, b) ==
  [i \in 1..((IF b < d.len THEN b ELSE d.len) - a) |-> d.at[a + i - 1]]

\* A slice assignment that begins one byte late.
SliceAssign_Late(d, a, b, v) ==
  [len |-> d.len,
   at |-> [k \in DOMAIN d.at |->
             IF k > a /\ k <= a + Len(v) THEN v[k - a] ELSE d.at[k]]]

\* data[a:b] = v of a bytearray: the bytes from a to b, or to the end, are
\* replaced by those of v, and what follows them moves if v has another
\* length.
SliceAssign(d, a, b, v) ==
  LET e == IF b < d.len THEN b ELSE d.len
      shift == Len(v) - (e - a)
      dom == {k \in DOMAIN d.at : k < a} \cup (a..(a + Len(v) - 1))
               \cup {k + shift : k \in {j \in DOMAIN d.at : j >= e}}
  IN  [len |-> d.len + shift,
       at |-> [k \in dom |->
                 IF k < a THEN d.at[k]
                 ELSE IF k < a + Len(v) THEN v[k - a + 1]
                 ELSE d.at[k - shift]]]

\* The entry a pass of the loop appends to results.
Outcome(status, patch) == [status |-> status, offset |-> patch.offset]

\* What the actions of apply_patches and of its caller leave alone.
applyFrame ==
  <<data, reader, output, window, window_pos, first, lit, dict_bits, symbol,
    length, dist_extra, dist, remaining, pc, ret, unit_no, fixture, scanVars,
    tableVars, extractVars, mainVars, patchVars, flowVars>>

\* One pass of the loop over the patches.
ApplyStep ==
  /\ ap_pc = "loop"
  /\ ap_no < Len(patches)
  /\ \E patch \in {patches[ap_no + 1]} :
       IF patch.offset + Len(patch.original) > ap_data.len
       THEN /\ results' = Append(results, Outcome("OUT_OF_RANGE", patch))
            /\ UNCHANGED ap_data
       ELSE \E current \in {ByteSlice(ap_data, patch.offset,
                                      patch.offset + Len(patch.original))} :
              IF current = patch.original
              THEN /\ ap_data' = SliceAssign(ap_data, patch.offset,
                                             patch.offset + Len(patch.patched),
                                             patch.patched)
                   /\ results' = Append(results, Outcome("PATCHED", patch))
              ELSE IF current = patch.patched
              THEN /\ results' = Append(results, Outcome("ALREADY", patch))
                   /\ UNCHANGED ap_data
              ELSE /\ results' = Append(results, Outcome("MISMATCH", patch))
                   /\ UNCHANGED ap_data
  /\ ap_no' = ap_no + 1
  /\ UNCHANGED <<ap_pc, patches, ap_first, result>>
  /\ UNCHANGED applyFrame

\* return bytes(data), results
ApplyReturn ==
  /\ ap_pc = "loop"
  /\ ~(ap_no < Len(patches))
  /\ ap_pc' = "returned"
  /\ result' = [kind |-> "applied", value |-> <<ap_data, results>>]
  /\ UNCHANGED <<ap_data, patches, ap_no, results, ap_first>>
  /\ UNCHANGED applyFrame

apply_patches == ApplyStep \/ ApplyReturn

\* The caller that gives the data returned, with the same patches, to a
\* second call, keeping what the first call was given and what it returned.
ApplyAgain ==
  /\ ap_pc = "returned"
  /\ ap_first = Unset
  /\ ap_first' = [kind |-> "first",
                  value |-> [given |-> fixture.data, data |-> result.value[1],
                             results |-> result.value[2]]]
  /\ ap_data' = result.value[1]
  /\ results' = <<>>
  /\ ap_no' = 0
  /\ ap_pc' = "loop"
  /\ UNCHANGED <<patches, result>>
  /\ UNCHANGED applyFrame

(***************************************************************************)
(* main of main.py.  A directory is a function from the names of its files *)
(* to the MD5 sums of their contents.  What the network, the ISO image,    *)
(* the updater and the user give is chosen freely in each step; trace      *)
(* lists the calls and the answers the gates of the run rest on.  An       *)
(* exception nothing catches ends the run at "raised", sys.exit(0) and the *)
(* end of main at "exited".                                                *)
(***************************************************************************)
ISO_MD5 == "a6ad08f1b2d53045e18beb4c1a5da846"

UPDATE_MD5 == "2c3ccac00e8410d73cbea858b9d25159"

\* An MD5 sum that is none of those the program knows.
OTHER_MD5 == "00000000000000000000000000000000"

updater_files ==
  <<[key |-> "2KCLIENT.EXE", md5 |-> "9942b057f14fa995cfe8d710e6c1b9bf"],
    [key |-> "2KSERVER.EXE", md5 |-> "6c412cf27726879aaa97d75db857a601"],
    [key |-> "USAHORES.DLL", md5 |-> "a3cf6380bf74df2e8e266122f3bfa276"],
    [key |-> "USARES.DLL", md5 |-> "05b105b841e3fe34fe7f37cae67b6d74"]>>

Keys == {updater_files[k].key : k \in DOMAIN updater_files}

\* The files of the updater with the sums updater_files gives.
UpdaterGood ==
  [n \in Keys |->
     updater_files[CHOOSE k \in DOMAIN updater_files :
                     updater_files[k].key = n].md5]

\* A directory without the file name.
Without(dir, name) == [n \in (DOMAIN dir) \ {name} |-> dir[n]]

\* What the directory 2KNET of the image may hold of the four files: none,
\* all four in the older version, all four as updated, or three of them.
GameImages ==
  {<<>>, [n \in Keys |-> OTHER_MD5], UpdaterGood,
   Without([n \in Keys |-> OTHER_MD5], "USARES.DLL")}

\* What the extraction of the updater may leave: nothing, the four files,
\* three of them, or the four with one of another content.
UpdaterContents ==
  {<<>>, UpdaterGood, Without(UpdaterGood, "USARES.DLL"),
   [UpdaterGood EXCEPT !["2KSERVER.EXE"] = OTHER_MD5]}

\* The file names of the two download URLs.
ISO_NAME == "Simcity 2000 Network Edition.iso"

UPDATE_NAME == "update2knet11.exe"

\* map_directory_hashes: a map from the sums of the files of the directory
\* to their names; of two files with one sum one name is kept.
map_directory_hashes(dir) ==
  [h \in {dir[n] : n \in DOMAIN dir} |-> CHOOSE n \in DOMAIN dir : dir[n] = h]

\* file_checks: at least two files, and every expected sum among theirs.
file_checks(files_found, expected_hashes) ==
  IF Cardinality(DOMAIN files_found) < 2 THEN FALSE
  ELSE \A i \in DOMAIN expected_hashes : expected_hashes[i] \in DOMAIN files_found

\* check_updated_game_files from the key number k on: "raise" at a file
\* that is not there, FALSE at the first sum that differs.
RECURSIVE CheckFrom(_, _)
CheckFrom(game, k) ==
  IF k > Len(updater_files) THEN [exc |-> NoExc, val |-> TRUE]
  ELSE IF updater_files[k].key \notin DOMAIN game
  THEN [exc |-> "FileNotFoundError", val |-> FALSE]
  ELSE IF game[updater_files[k].key] # updater_files[k].md5
  THEN [exc |-> NoExc, val |-> FALSE]
  ELSE CheckFrom(game, k + 1)

check_updated_game_files(game) == CheckFrom(game, 1)

\* choice.lower()
Lower(choice) == IF choice = "Y" THEN "y" ELSE choice

\* if choice.lower() != 'y'
Declines(choice) == Lower(choice) # "y"

\* A final test that never fails.
FinalFailed_Never(r) == FALSE

\* if game_final_check == False
FinalFailed(r) == r = FALSE

\* A file written into a directory.
PutFile(dir, name, sum) ==
  [n \in (DOMAIN dir) \cup {name} |-> IF n = name THEN sum ELSE dir[n]]

\* What download_binary_file leaves in the directory: the file, a file
\* with another content, or nothing.
Downloaded(dir, name, sum, outcome) ==
  IF outcome = "saved" THEN PutFile(dir, name, sum)
  ELSE IF outcome = "damaged" THEN PutFile(dir, name, OTHER_MD5)
  ELSE dir

Event(step, value) == [step |-> step, value |-> value]

flowFrame ==
  <<data, reader, output, window, window_pos, first, lit, dict_bits, symbol,
    length, dist_extra, dist, remaining, pc, result, ret, unit_no, fixture,
    scanVars, tableVars, extractVars, mainVars, patchVars, applyVars>>

\* From the entry of main to the first file check.
FlowCheck ==
  /\ w_pc = "start"
  /\ \E cf \in {map_directory_hashes(folders.files)} :
       /\ current_files' = cf
       /\ \E r \in {file_checks(cf, folders.sig)} :
            /\ file_check_result' = r
            /\ trace' = Append(trace, Event("file_checks", r))
            /\ w_pc' = IF r = FALSE THEN "ask" ELSE "passed"
  /\ UNCHANGED folders
  /\ UNCHANGED flowFrame

\* The question and the answer; input() raises at the end of the input.
FlowAsk ==
  /\ w_pc = "ask"
  /\ \E choice \in {"y", "Y", "n", "yes", "", "EOF"} :
       /\ trace' = Append(trace, Event("input", choice))
       /\ w_pc' = IF choice = "EOF" THEN "raised"
                  ELSE IF Declines(choice) THEN "exited"
                  ELSE "download"
  /\ UNCHANGED <<folders, current_files, file_check_result>>
  /\ UNCHANGED flowFrame

\* The two downloads; an exception that is not a RequestException leaves
\* download_binary_file and main.
FlowDownload ==
  /\ w_pc = "download"
  /\ \E o1 \in {"saved", "damaged", "failed", "raise"} :
       IF o1 = "raise"
       THEN w_pc' = "raised" /\ UNCHANGED folders
       ELSE \E o2 \in {"saved", "damaged", "failed", "raise"} :
              /\ folders' =
                   [folders EXCEPT !.files =
                      Downloaded(Downloaded(folders.files, ISO_NAME, ISO_MD5, o1),
                                 UPDATE_NAME, UPDATE_MD5,
                                 IF o2 = "raise" THEN "damaged" ELSE o2)]
              /\ w_pc' = IF o2 = "raise" THEN "raised" ELSE "recheck"
  /\ trace' = Append(trace, Event("download", "called"))
  /\ UNCHANGED <<current_files, file_check_result>>
  /\ UNCHANGED flowFrame

\* The files are listed and checked once more.
FlowRecheck ==
  /\ w_pc = "recheck"
  /\ \E cf \in {map_directory_hashes(folders.files)} :
       /\ current_files' = cf
       /\ \E r \in {file_checks(cf, folders.sig)} :
            /\ file_check_result' = r
            /\ trace' = Append(trace, Event("file_checks", r))
            /\ w_pc' = IF r = FALSE THEN "exited" ELSE "passed"
  /\ UNCHANGED folders
  /\ UNCHANGED flowFrame

\* The paths of the two files, and extract_iso_recursive: it leaves the
\* directory 2KNET with what the image holds, or raises.  A sum that is
\* not in current_files gives the name None, and the path a TypeError.
FlowIso ==
  /\ w_pc = "passed"
  /\ IF ISO_MD5 \notin DOMAIN current_files
          \/ UPDATE_MD5 \notin DOMAIN current_files
     THEN w_pc' = "raised" /\ UNCHANGED <<folders, trace>>
     ELSE /\ trace' = Append(trace, Event("extract_iso_recursive", "called"))
          /\ \/ w_pc' = "raised" /\ UNCHANGED folders
             \/ /\ w_pc' = "iso_done"
                /\ \E g \in GameImages : folders' = [folders EXCEPT !.game = g]
  /\ UNCHANGED <<current_files, file_check_result>>
  /\ UNCHANGED flowFrame

\* The updater is read and scanned, and its second archive extracted:
\* archives[1] raises if fewer than two were found.
FlowIs3 ==
  /\ w_pc = "iso_done"
  /\ trace' = Append(trace, Event("find_is3_archives", "called"))
  /\ \/ w_pc' = "raised" /\ UNCHANGED folders
     \/ /\ w_pc' = "is3_done"
        /\ \E u \in UpdaterContents : folders' = [folders EXCEPT !.update = u]
  /\ UNCHANGED <<current_files, file_check_result>>
  /\ UNCHANGED flowFrame

\* The files of the updater that are there are copied over those of the
\* game.
FlowCopy ==
  /\ w_pc = "is3_done"
  /\ trace' = Append(trace, Event("copy", "called"))
  /\ folders' =
       [folders EXCEPT !.game =
          [n \in (DOMAIN folders.game) \cup (Keys \cap DOMAIN folders.update) |->
             IF n \in Keys \cap DOMAIN folders.update THEN folders.update[n]
             ELSE folders.game[n]]]
  /\ w_pc' = "copied"
  /\ UNCHANGED <<current_files, file_check_result>>
  /\ UNCHANGED flowFrame

\* The final check of the sums.
FlowFinal ==
  /\ w_pc = "copied"
  /\ \E c \in {check_updated_game_files(folders.game)} :
       IF c.exc # NoExc
       THEN w_pc' = "raised" /\ UNCHANGED trace
       ELSE /\ trace' = Append(trace, Event("check_updated_game_files", c.val))
            /\ w_pc' = IF FinalFailed(c.val) THEN "exited" ELSE "patch"
  /\ UNCHANGED <<folders, current_files, file_check_result>>
  /\ UNCHANGED flowFrame

\* patch_v11 and the end of main: the report is read, which raises if
\* patch_v11 gave none for the server.
FlowPatch ==
  /\ w_pc = "patch"
  /\ trace' = Append(trace, Event("patch_v11", "called"))
  /\ w_pc' \in {"exited", "raised"}
  /\ UNCHANGED <<folders, current_files, file_check_result>>
  /\ UNCHANGED flowFrame

workflow ==
  \/ FlowCheck \/ FlowAsk \/ FlowDownload \/ FlowRecheck \/ FlowIso
  \/ FlowIs3 \/ FlowCopy \/ FlowFinal \/ FlowPatch

(***************************************************************************)
(* Inputs of find_is3_archives: buffers made of a few pieces, among them   *)
(* the signature, a part of it, and fillers that leave a signature with    *)
(* exactly 0x33 bytes, or one byte less, up to the end of the buffer.      *)
(***************************************************************************)
MaxChunks == 4

Zeros(n) == Repeat(0, n)

Counting(n) == [k \in 1..n |-> k]

ChunkSet ==
  {IS3_SIGNATURE, <<19, 93, 101>>, Zeros(46), Zeros(47), Counting(47)}

RECURSIVE Concat(_)
Concat(chunks) ==
  IF chunks = <<>> THEN <<>> ELSE Head(chunks) \o Concat(Tail(chunks))

ScanInputs == {Concat(cs) : cs \in SeqsUpTo(ChunkSet, MaxChunks)}

\* A minimal archive header: the signature and zero fields.
MinimalHeader == IS3_SIGNATURE \o Zeros(47)

(***************************************************************************)
(* Inputs of parse_file_table: a buffer holding, after base bytes of       *)
(* other content, an archive header, its directory records and its file    *)
(* records, laid out as the format says, the header's counts being those   *)
(* of the records or one more, and the buffer complete or cut short.       *)
(***************************************************************************)
MaxDirs == 2

MaxFiles == 2

U16Bytes(v) == <<v % 256, (v \div 256) % 256>>

U32Bytes(v) ==
  <<v % 256, (v \div 256) % 256, (v \div 65536) % 256, (v \div 16777216) % 256>>

SUBDIR == <<83, 85, 66, 68, 73, 82>>

A_TXT == <<65, 46, 84, 88, 84>>

B_TXT == <<66, 46, 84, 88, 84>>

DirSpecs ==
  {[count |-> 2, name |-> SUBDIR, pad |-> 0],
   [count |-> 1, name |-> <<68, 0>>, pad |-> 2],
   [count |-> 1, name |-> <<>>, pad |-> 0]}

FileSpecs ==
  {[name |-> A_TXT, size |-> 100], [name |-> B_TXT, size |-> 200],
   [name |-> A_TXT, size |-> 0], [name |-> <<67, 200>>, size |-> 100]}

DirRecBytes(ds) ==
  U16Bytes(ds.count) \o U16Bytes(6 + Len(ds.name) + ds.pad)
    \o U16Bytes(Len(ds.name)) \o ds.name \o Zeros(ds.pad)

FileRecBytes(fs) ==
  Zeros(7) \o U32Bytes(fs.size) \o Zeros(4) \o U16Bytes(4660)
    \o U16Bytes(22136) \o Zeros(4) \o U16Bytes(30 + Len(fs.name)) \o Zeros(4)
    \o <<Len(fs.name)>> \o fs.name

HeaderBytes(file_count, name_offset, dir_count) ==
  IS3_SIGNATURE \o Zeros(8) \o U16Bytes(file_count) \o Zeros(4)
    \o U32Bytes(0) \o Zeros(19) \o U32Bytes(name_offset) \o Zeros(4)
    \o U16Bytes(dir_count)

RECURSIVE DirBytes(_)
DirBytes(dirs) ==
  IF dirs = <<>> THEN <<>> ELSE DirRecBytes(Head(dirs)) \o DirBytes(Tail(dirs))

RECURSIVE FileBytes(_)
FileBytes(fs) ==
  IF fs = <<>> THEN <<>> ELSE FileRecBytes(Head(fs)) \o FileBytes(Tail(fs))

\* The shapes of a buffer: where the archive starts, how many records more
\* than there are the header announces, how many bytes of the records are
\* cut off, whether the records give their own size as block_len or 0, and
\* the name_offset of the header (51 is where the records start).
PlainShape ==
  [base |-> 0, more_dirs |-> 0, more_files |-> 0, cut |-> 0, stride |-> "fit",
   name_offset |-> 51]

Shapes ==
  {PlainShape,
   [PlainShape EXCEPT !.base = 3],
   [PlainShape EXCEPT !.more_dirs = 1],
   [PlainShape EXCEPT !.more_files = 1],
   [PlainShape EXCEPT !.cut = 1],
   [PlainShape EXCEPT !.cut = 20],
   [PlainShape EXCEPT !.cut = 40],
   [PlainShape EXCEPT !.stride = "zero"],
   [PlainShape EXCEPT !.name_offset = 5000]}

TableFixtures ==
  {[built |-> TRUE, dirs |-> ds, files |-> fs, shape |-> sh] :
     ds \in SeqsUpTo(DirSpecs, MaxDirs), fs \in SeqsUpTo(FileSpecs, MaxFiles),
     sh \in Shapes}

\* The bytes rec of a record with its block_len field, at off, set to 0.
ZeroStride(rec, off) ==
  [k \in 1..Len(rec) |-> IF k \in {off + 1, off + 2} THEN 0 ELSE rec[k]]

RECURSIVE RecordBytes(_, _)
RecordBytes(recs, stride) ==
  IF recs = <<>> THEN <<>>
  ELSE (IF stride = "zero" THEN ZeroStride(Head(recs).bytes, Head(recs).off)
        ELSE Head(recs).bytes)
         \o RecordBytes(Tail(recs), stride)

TableBuffer(fx) ==
  LET recs == [k \in 1..Len(fx.dirs) |->
                 [bytes |-> DirRecBytes(fx.dirs[k]), off |-> 2]]
                \o [k \in 1..Len(fx.files) |->
                      [bytes |-> FileRecBytes(fx.files[k]), off |-> 23]]
      table == RecordBytes(recs, fx.shape.stride)
      cut == IF fx.shape.cut < Len(table) THEN fx.shape.cut ELSE Len(table)
  IN  Repeat(170, fx.shape.base)
        \o HeaderBytes(Len(fx.files) + fx.shape.more_files,
                       fx.shape.name_offset,
                       Len(fx.dirs) + fx.shape.more_dirs)
        \o SubSeq(table, 1, Len(table) - cut)

(***************************************************************************)
(* Inputs of extract_archive: a buffer that holds an archive header, its   *)
(* table, and from 0xFF on the payloads of its records one after another.  *)
(***************************************************************************)
MaxPayloads == 2

\* Payloads: two that decode, one that decodes to no byte at all, one that
\* ends before its end code, one with a bad header and one that is a header
\* and nothing more.
P_A == Encode(0, 4, <<Lit(65), End>>)

P_AAA == Encode(0, 5, <<Lit(65), Mat(2, 1), End>>)

P_Empty == Encode(0, 4, <<End>>)

P_Cut == Encode(0, 4, <<Lit(65), Lit(66)>>)

P_BadHeader == <<2, 4, 0>>

P_HeaderOnly == <<0, 4>>

PayloadSpecs ==
  {[name |-> A_TXT, payload |-> P_A], [name |-> B_TXT, payload |-> P_AAA],
   [name |-> A_TXT, payload |-> P_Cut], [name |-> B_TXT, payload |-> P_Empty],
   [name |-> B_TXT, payload |-> P_BadHeader],
   [name |-> A_TXT, payload |-> P_HeaderOnly]}

ExtractDirs ==
  {<<>>, <<[count |-> 1, name |-> SUBDIR, pad |-> 0]>>}

ExtractFixtures ==
  {[built |-> TRUE, dirs |-> ds, files |-> fs] :
     ds \in ExtractDirs, fs \in SeqsUpTo(PayloadSpecs, MaxPayloads)}

RECURSIVE Payloads(_)
Payloads(fs) ==
  IF fs = <<>> THEN <<>> ELSE Head(fs).payload \o Payloads(Tail(fs))

ExtractBuffer(fx) ==
  LET table == HeaderBytes(Len(fx.files), 51, Len(fx.dirs)) \o DirBytes(fx.dirs)
                 \o FileBytes([k \in 1..Len(fx.files) |->
                                 [name |-> fx.files[k].name,
                                  size |-> Len(fx.files[k].payload)]])
  IN  table \o Zeros(HEADER_SIZE - Len(table)) \o Payloads(fx.files)

(***************************************************************************)
(* Inputs of main: a command line, and an input file made of archives one  *)
(* after another, or of none.                                              *)
(***************************************************************************)
MaxArchives == 2

ArchiveX ==
  ExtractBuffer([built |-> TRUE, dirs |-> <<>>,
                 files |-> <<[name |-> A_TXT, payload |-> P_A],
                             [name |-> B_TXT, payload |-> P_HeaderOnly]>>])

ArchiveY ==
  ExtractBuffer([built |-> TRUE,
                 dirs |-> <<[count |-> 1, name |-> SUBDIR, pad |-> 0]>>,
                 files |-> <<[name |-> B_TXT, payload |-> P_AAA],
                             [name |-> A_TXT, payload |-> P_Cut]>>])

\* An archive laid out for offset 0 is found and parsed at any offset: the
\* offsets of its table and payloads are relative to its header.
MainBuffers ==
  {Concat(as) : as \in SeqsUpTo({ArchiveX, ArchiveY}, MaxArchives)} \cup {Zeros(60)}

Prog == "is3extract.py"

CommandLines ==
  {<<Prog>>, <<Prog, InputFile>>,
   <<Prog, InputFile, "out">>,
   <<Prog, "missing.exe", "out">>,
   <<Prog, "--list", "out">>,
   <<Prog, InputFile, "out", "--list">>,
   <<Prog, InputFile, "out", "--archive", "0">>,
   <<Prog, InputFile, "out", "--archive", "1">>,
   <<Prog, InputFile, "out", "--archive", "5">>,
   <<Prog, InputFile, "out", "--archive", "-1">>,
   <<Prog, InputFile, "out", "--archive">>,
   <<Prog, InputFile, "out", "--archive", "x">>,
   <<Prog, InputFile, "out", "--archive", "--list">>,
   <<Prog, InputFile, "out", "--list", "--archive", "1">>,
   <<Prog, "missing.exe", "out", "--archive", "x">>}

MainFixtures ==
  {[built |-> TRUE, buffer |-> b, argv |-> av] :
     b \in MainBuffers, av \in CommandLines}

(***************************************************************************)
(* Inputs of patch_file: a target that is missing, original, patched       *)
(* already or something else; a backup that is there or not; patches that  *)
(* verify, that fail verification and that bsdiff_apply cannot apply.      *)
(***************************************************************************)
Target == "2KCLIENT.EXE"

Original == <<10, 20, 30>>

GoodPatch ==
  [new_size |-> 4, triples |-> <<<<2, 1, 1>>, <<1, 0, 0>>>>,
   diff_mods |-> (0 :> 1) @@ (2 :> 7), extra |-> <<99>>,
   pre_md5 |-> md5(Original), post_md5 |-> md5(<<11, 20, 99, 7>>)]

\* A negative seek: the second triple reads the old file from its end.
BackPatch ==
  [new_size |-> 2, triples |-> <<<<1, 0, 0 - 2>>, <<1, 0, 0>>>>,
   diff_mods |-> (0 :> 255), extra |-> <<>>,
   pre_md5 |-> md5(Original), post_md5 |-> md5(<<9, 30>>)]

PatchSet ==
  {GoodPatch, BackPatch,
   [GoodPatch EXCEPT !.post_md5 = (@ + 1) % DigestSpace],
   [GoodPatch EXCEPT !.new_size = 3],
   [GoodPatch EXCEPT !.extra = <<>>],
   [BackPatch EXCEPT !.triples = <<<<1, 0, 0 - 5>>, <<1, 0, 0>>>>]}

TargetContents == {<<>>, Original, <<11, 20, 99, 7>>, <<1, 2>>, <<10, 20, 5>>}

DiskSet ==
  {d \in UNION {[S -> TargetContents \cup {<<77>>}] :
                  S \in SUBSET {Target, BackupPath(Target)}} :
     /\ Target \in DOMAIN d => d[Target] \in TargetContents
     /\ BackupPath(Target) \in DOMAIN d => d[BackupPath(Target)] = <<77>>}

PatchFixtures ==
  {[built |-> TRUE, disk |-> d, patch_data |-> pd, backup |-> b] :
     d \in DiskSet, pd \in PatchSet, b \in BOOLEAN}

(***************************************************************************)
(* Inputs of BitReader: short buffers of bytes with mixed bits.            *)
(***************************************************************************)
MaxBitBytes == 3

BitByteSet == {0, 165, 255, 60}

BitInputs == SeqsUpTo(BitByteSet, MaxBitBytes)

(***************************************************************************)
(* Inputs of HuffmanTable: packed length lists, short ones of every kind   *)
(* (complete, incomplete, with unused symbols, with a length beyond        *)
(* MAXBITS) and the three of the program, each with streams to decode.     *)
(***************************************************************************)
MaxRep == 2

MaxSyms == 2

\* 1, 2, 3: one symbol of that length; 18: two of length 2; 35: three of
\* length 3; 16: two unused symbols; 14: a length of 14.
RepByteSet == {1, 2, 3, 18, 35, 16, 14}

SmallReps == SeqsUpTo(RepByteSet, MaxRep)

\* The sum over the used symbols of 2^(MAXBITS - length) is at most
\* 2^MAXBITS: the lengths are those of a prefix code.
KraftSum(lengths) ==
  ForRange(LAMBDA i, acc :
             acc + (IF lengths[i + 1] = 0 \/ lengths[i + 1] > MAXBITS THEN 0
                    ELSE 2 ^ (MAXBITS - lengths[i + 1])),
           0, Len(lengths), 0)

IsPrefixCode(lengths) ==
  /\ \A i \in 1..Len(lengths) : lengths[i] <= MAXBITS
  /\ KraftSum(lengths) <= 2 ^ MAXBITS

UsedSymbols(lengths) == {s \in 0..(Len(lengths) - 1) : lengths[s + 1] # 0}

RECURSIVE SymbolBits(_, _)
SymbolBits(lengths, syms) ==
  IF syms = <<>> THEN <<>>
  ELSE CodeBits(lengths, Head(syms)) \o SymbolBits(lengths, Tail(syms))

RawStreams == {<<>>, <<0>>, <<0, 0>>, <<255, 255>>, <<165, 90>>}

\* The streams of up to MaxSyms symbols of the set syms, and raw bytes.
HuffStreams(rep, syms) ==
  {[built |-> TRUE, rep |-> rep, syms |-> ss,
    data |-> PackBits(SymbolBits(Expand(rep), ss))] :
     ss \in SeqsUpTo(syms, MaxSyms)}
    \cup {[built |-> TRUE, rep |-> rep, syms |-> <<>>, data |-> d] :
            d \in RawStreams}

\* The length and distance tables of the program with every first byte.
FixedTableFixtures ==
  {[built |-> TRUE, rep |-> rep, syms |-> <<>>, data |-> <<b, c>>] :
     rep \in {LENLEN, DISTLEN}, b \in Byte, c \in {0, 255}}

\* The streams for the tables of reps and for those of the program.
HuffFixtures(reps) ==
  UNION {HuffStreams(rep, IF IsPrefixCode(Expand(rep))
                          THEN UsedSymbols(Expand(rep)) ELSE {}) :
           rep \in reps}
    \cup HuffStreams(LITLEN, {0, 32, 65, 255})
    \cup HuffStreams(LENLEN, {0, 1, 7, 8, 15})
    \cup HuffStreams(DISTLEN, {0, 1, 31, 63})
    \cup FixedTableFixtures

(***************************************************************************)
(* Inputs for the length and distance arithmetic: one match per stream,    *)
(* with every length and every distance of the format, first in the stream *)
(* or after literals.                                                      *)
(***************************************************************************)
\* The greatest distance a stream with db dictionary bits can hold for a
\* match of length len.
MaxDistance(len, db) == 64 * (2 ^ FormatDistBits(len, db))

MatchUnits ==
  {Mat(len, d) : len \in 2..(END_CODE - 1), d \in {1, 256}}
    \cup {Mat(len, d) : len \in {3, 264, END_CODE - 1}, d \in 1..MAXWIN}
    \cup {Mat(2, d) : d \in 1..256}

MatchFixtures ==
  {[built |-> TRUE, lit |-> 0, dict_bits |-> 6, units |-> <<u>>] :
     u \in MatchUnits \cup {End}}
    \cup {[built |-> TRUE, lit |-> l, dict_bits |-> db, units |-> <<Mat(len, d)>>] :
            l \in {0, 1}, db \in {4, 5}, len \in {2, 3, 10, END_CODE - 1},
            d \in {1, 64, 256, 1024, 2048}}
    \cup {[built |-> TRUE, lit |-> 0, dict_bits |-> db, units |-> us] :
            db \in 4..6,
            us \in {<<>>, <<Lit(65), Mat(2, 1), End>>,
                    <<Lit(65), Lit(66), Mat(9, 2), End>>}}

(***************************************************************************)
(* Inputs of extract_archive whose table names are not plain: "..", a      *)
(* directory or a file name that begins with a backslash, an empty file    *)
(* name.                                                                   *)
(***************************************************************************)
PathDirs ==
  {<<>>, <<[count |-> 1, name |-> DOTDOT, pad |-> 0]>>,
   <<[count |-> 1, name |-> <<Backslash, 68>>, pad |-> 0]>>}

PathSpecs ==
  {[name |-> A_TXT, payload |-> P_A],
   [name |-> DOTDOT \o <<Backslash, 65>>, payload |-> P_A],
   [name |-> <<Backslash, 65>>, payload |-> P_AAA],
   [name |-> <<>>, payload |-> P_A],
   [name |-> DOTDOT, payload |-> P_A]}

PathFixtures ==
  {[built |-> TRUE, dirs |-> ds, files |-> fs] :
     ds \in PathDirs, fs \in SeqsUpTo(PathSpecs, MaxPayloads)}

(***************************************************************************)
(* Inputs of apply_patches: one of the two tables, and a file of the size  *)
(* the table is for or cut short, in which the place of every patch holds  *)
(* the original bytes, the patched bytes or other bytes.                   *)
(***************************************************************************)
\* The tables with the sizes patch_v11 expects of their files.
PatchTables ==
  {[patches |-> SERVER_V11_PATCHES, size |-> 553984],
   [patches |-> CLIENT_V11_PATCHES, size |-> 1422336]}

\* The offsets a patch covers.
RangeOf(patch) == patch.offset..(patch.offset + Len(patch.original) - 1)

\* The offsets kept of a file.
Kept(ps) ==
  UNION {(ps[i].offset - 1)..(ps[i].offset + Len(ps[i].original)) :
           i \in DOMAIN ps}

Kinds == {"original", "patched", "other"}

\* What the place of a patch holds.
PlaceBytes(patch, kind) ==
  IF kind = "original" THEN patch.original
  ELSE IF kind = "patched" THEN patch.patched
  ELSE [i \in 1..Len(patch.original) |-> 204]

\* In how many places a file differs from the others of its places.
MaxOdd == 1

\* The kinds of the places of a file: all of one kind but a few.
Layouts(ps) ==
  {[i \in DOMAIN ps |-> IF i \in odd THEN b ELSE a] :
     a \in Kinds, b \in Kinds,
     odd \in {S \in SUBSET (DOMAIN ps) : Cardinality(S) <= MaxOdd}}

\* The sizes of a file: the size the table is for, nothing, and sizes that
\* end inside the place of a patch or right after it.
SizesOf(t) ==
  {0, t.size}
    \cup {t.patches[i].offset + Len(t.patches[i].original) - c :
            i \in {1, Len(t.patches) - 1}, c \in {0, 1}}

FileOf(ps, size, layout) ==
  [len |-> size,
   at |-> [k \in {j \in Kept(ps) : j < size} |->
             IF \E i \in DOMAIN ps : k \in RangeOf(ps[i])
             THEN LET i == CHOOSE i \in DOMAIN ps : k \in RangeOf(ps[i])
                  IN  PlaceBytes(ps[i], layout[i])[k - ps[i].offset + 1]
             ELSE 144]]

ApplyFixtures ==
  UNION {{[built |-> TRUE, patches |-> t.patches,
           data |-> FileOf(t.patches, size, layout)] :
            size \in SizesOf(t), layout \in Layouts(t.patches)} :
         t \in PatchTables}

(***************************************************************************)
(* Inputs of main of main.py: what the files directory holds, and the      *)
(* sums md5sum.txt lists (none if the file is not there).                  *)
(***************************************************************************)
Directories ==
  {<<>>,
   (ISO_NAME :> ISO_MD5),
   (ISO_NAME :> ISO_MD5) @@ (UPDATE_NAME :> UPDATE_MD5),
   ("a.iso" :> ISO_MD5) @@ ("b.exe" :> UPDATE_MD5) @@ ("c.txt" :> OTHER_MD5),
   ("a.iso" :> ISO_MD5) @@ ("b.iso" :> ISO_MD5),
   (ISO_NAME :> ISO_MD5) @@ (UPDATE_NAME :> OTHER_MD5),
   ("a.txt" :> OTHER_MD5) @@ (UPDATE_NAME :> UPDATE_MD5)}

Signatures == {<<>>, <<ISO_MD5, UPDATE_MD5>>, <<OTHER_MD5>>}

FlowFixtures ==
  {[built |-> TRUE, files |-> d, sig |-> s] :
     d \in Directories, s \in Signatures}

(***************************************************************************)
(* The specifications: one per function.                                   *)
(***************************************************************************)
scanIdle == pos = 0 /\ archives = <<>>

NoArchive ==
  [offset |-> 0, file_count |-> 0, archive_len |-> 0, name_offset |-> 0,
   dir_count |-> 0]

tableIdle ==
  /\ archive_info = NoArchive
  /\ directories = <<>>
  /\ dir_for_file = <<>>
  /\ files = <<>>
  /\ idx = 0

NoRuns == [first |-> Unset, seen |-> <<>>]

extractIdle ==
  /\ ea_pc = "idle"
  /\ ea_data = <<>>
  /\ output_dir = 0
  /\ file_no = 0 /\ extracted = 0 /\ failed = 0
  /\ disk = <<>>
  /\ made = {}
  /\ runs = NoRuns


mainIdle ==
  /\ m_pc = "idle"
  /\ argv = <<>>
  /\ m_data = <<>>
  /\ list_only = FALSE
  /\ archive_filter = NoFilter
  /\ m_archives = <<>>
  /\ arch_no = 0
  /\ total_extracted = 0 /\ total_failed = 0
  /\ exit_code = NoFilter
  /\ calls = <<>>

patchIdle ==
  /\ pf_pc = "idle"
  /\ pf_args = <<>>
  /\ old_data = <<>>
  /\ new_data = <<>>

applyIdle ==
  /\ ap_pc = "idle"
  /\ ap_data = <<>>
  /\ patches = <<>>
  /\ ap_no = 0
  /\ results = <<>>
  /\ ap_first = Unset

flowIdle ==
  /\ w_pc = "idle"
  /\ folders = <<>>
  /\ current_files = <<>>
  /\ file_check_result = FALSE
  /\ trace = <<>>

toolIdle == applyIdle /\ flowIdle

callersIdle == extractIdle /\ mainIdle /\ patchIdle /\ toolIdle

Init == dclInit /\ scanIdle /\ tableIdle /\ callersIdle

Next == decompress_dcl

Spec == Init /\ [][Next]_vars

InitScan ==
  /\ data \in ScanInputs
  /\ fixture = NoFixture
  /\ pc = "find"
  /\ result = Unset
  /\ dclLocalsIdle /\ scanIdle /\ tableIdle /\ callersIdle

NextScan == find_is3_archives

SpecScan == InitScan /\ [][NextScan]_vars

InitTable ==
  /\ fixture \in TableFixtures
  /\ data = TableBuffer(fixture)
  /\ archive_info = ArchiveHeader(data, fixture.shape.base)
  /\ pc = "entry"
  /\ result = Unset
  /\ directories = <<>> /\ dir_for_file = <<>> /\ files = <<>> /\ idx = 0
  /\ dclLocalsIdle /\ scanIdle /\ callersIdle

NextTable == parse_file_table

SpecTable == InitTable /\ [][NextTable]_vars

\* The function is sequential code: it takes its next step whenever it has
\* one.
SpecTableFair == InitTable /\ [][NextTable]_vars /\ WF_vars(NextTable)

\* extract_archive, called on a buffer and the header at its start, and
\* called once more on the same arguments when it has returned.
InitExtract ==
  /\ fixture \in ExtractFixtures
  /\ ea_data = ExtractBuffer(fixture)
  /\ data = ea_data
  /\ archive_info = ArchiveHeader(ea_data, 0)
  /\ output_dir = 1
  /\ ea_pc = "entry"
  /\ pc = "idle"
  /\ result = Unset
  /\ file_no = 0 /\ extracted = 0 /\ failed = 0
  /\ disk = <<>> /\ made = {} /\ runs = NoRuns
  /\ directories = <<>> /\ dir_for_file = <<>> /\ files = <<>> /\ idx = 0
  /\ dclLocalsIdle /\ scanIdle /\ mainIdle /\ patchIdle /\ toolIdle

NextExtract ==
  extract_archive \/ parse_file_table \/ decompress_dcl \/ ExtractAgain

SpecExtract == InitExtract /\ [][NextExtract]_vars

\* decompress_dcl on a stream that is longer than the window.  The copy
\* loop is taken pass by pass or, from its start, in one step.
InitWindow ==
  /\ fixture \in WrapFixtures
  /\ data = Encode(fixture.lit, fixture.dict_bits, fixture.units)
  /\ pc = "start"
  /\ result = Unset
  /\ dclLocalsIdle /\ scanIdle /\ tableIdle /\ callersIdle

NextWindow == decompress_dcl \/ CopyRest

SpecWindow == InitWindow /\ [][NextWindow]_vars

\* One call of patch_file.
InitPatch ==
  /\ fixture \in PatchFixtures
  /\ pf_args = [filepath |-> Target, patch_data |-> fixture.patch_data,
                backup |-> fixture.backup]
  /\ pf_pc = "entry"
  /\ old_data = <<>>
  /\ new_data = <<>>
  /\ data = <<>>
  /\ pc = "idle"
  /\ result = Unset
  /\ dclLocalsIdle /\ scanIdle /\ tableIdle /\ mainIdle /\ toolIdle
  /\ ea_pc = "idle"
  /\ ea_data = <<>>
  /\ output_dir = 0
  /\ file_no = 0 /\ extracted = 0 /\ failed = 0
  /\ disk = fixture.disk
  /\ made = {}
  /\ runs = NoRuns

NextPatch == patch_file

SpecPatch == InitPatch /\ [][NextPatch]_vars

\* One run of the program.
InitMain ==
  /\ fixture \in MainFixtures
  /\ argv = fixture.argv
  /\ m_pc = "start"
  /\ m_data = <<>>
  /\ list_only = FALSE
  /\ archive_filter = NoFilter
  /\ m_archives = <<>>
  /\ arch_no = 0
  /\ total_extracted = 0 /\ total_failed = 0
  /\ exit_code = NoFilter
  /\ calls = <<>>
  /\ data = <<>>
  /\ pc = "idle"
  /\ result = Unset
  /\ dclLocalsIdle /\ scanIdle /\ tableIdle /\ extractIdle /\ patchIdle /\ toolIdle

NextMain ==
  main \/ find_is3_archives \/ extract_archive \/ parse_file_table
    \/ decompress_dcl

SpecMain == InitMain /\ [][NextMain]_vars

\* A BitReader on a buffer, and calls of bits on it.
InitBits ==
  /\ data \in BitInputs
  /\ fixture = NoFixture
  /\ pc = "reader"
  /\ result = Unset
  /\ dclLocalsIdle /\ scanIdle /\ tableIdle /\ callersIdle

NextBits == BitsCall

SpecBits == InitBits /\ [][NextBits]_vars

\* A table is built from packed lengths and symbols are decoded with it.
InitHuff ==
  /\ fixture \in HuffFixtures(SmallReps)
  /\ data = fixture.data
  /\ pc = "build"
  /\ result = Unset
  /\ dclLocalsIdle /\ scanIdle /\ tableIdle /\ callersIdle

NextHuff == HuffBuild \/ HuffDecode

SpecHuff == InitHuff /\ [][NextHuff]_vars

\* decompress_dcl on streams of one match each.
InitMatch ==
  /\ fixture \in {fx \in MatchFixtures :
                    \A k \in 1..Len(fx.units) :
                      fx.units[k].t = "match" =>
                        fx.units[k].dist <= MaxDistance(fx.units[k].len, fx.dict_bits)}
  /\ data = Encode(fixture.lit, fixture.dict_bits, fixture.units)
  /\ pc = "start"
  /\ result = Unset
  /\ dclLocalsIdle /\ scanIdle /\ tableIdle /\ callersIdle

NextMatch == decompress_dcl

SpecMatch == InitMatch /\ [][NextMatch]_vars

\* decompress_dcl has returned or raised.
Ends == pc \in {"returned", "raised"}

\* decompress_dcl with the scheduling of a sequential program: the
\* interpreter keeps executing the function until it returns or raises.
\* This is WF_vars(Next) with ENABLED <<Next>>_vars written out as ~Ends:
\* every position other than the two final ones has a step.
SpecFair == Init /\ [][Next]_vars /\ ([]<>Ends \/ []<><<Next>>_vars)

\* extract_archive on the tables of SpecExtract and on tables with names
\* that are not plain.
InitPaths ==
  /\ fixture \in ExtractFixtures \cup PathFixtures
  /\ ea_data = ExtractBuffer(fixture)
  /\ data = ea_data
  /\ archive_info = ArchiveHeader(ea_data, 0)
  /\ output_dir = 1
  /\ ea_pc = "entry"
  /\ pc = "idle"
  /\ result = Unset
  /\ file_no = 0 /\ extracted = 0 /\ failed = 0
  /\ disk = <<>> /\ made = {} /\ runs = NoRuns
  /\ directories = <<>> /\ dir_for_file = <<>> /\ files = <<>> /\ idx = 0
  /\ dclLocalsIdle /\ scanIdle /\ mainIdle /\ patchIdle /\ toolIdle

NextPaths ==
  extract_archive \/ parse_file_table \/ decompress_dcl \/ ExtractAgain

SpecPaths == InitPaths /\ [][NextPaths]_vars

\* apply_patches called twice: on a file, then on what it returned.
InitApply ==
  /\ fixture \in ApplyFixtures
  /\ patches = fixture.patches
  /\ ap_data = fixture.data
  /\ ap_pc = "loop"
  /\ ap_no = 0
  /\ results = <<>>
  /\ ap_first = Unset
  /\ data = <<>>
  /\ pc = "idle"
  /\ result = Unset
  /\ dclLocalsIdle /\ scanIdle /\ tableIdle
  /\ extractIdle /\ mainIdle /\ patchIdle /\ flowIdle

NextApply == apply_patches \/ ApplyAgain

SpecApply == InitApply /\ [][NextApply]_vars

\* main of main.py from its entry.
InitFlow ==
  /\ fixture \in FlowFixtures
  /\ folders = [files |-> fixture.files, sig |-> fixture.sig,
                update |-> <<>>, game |-> <<>>]
  /\ w_pc = "start"
  /\ current_files = <<>>
  /\ file_check_result = FALSE
  /\ trace = <<>>
  /\ data = <<>>
  /\ pc = "idle"
  /\ result = Unset
  /\ dclLocalsIdle /\ scanIdle /\ tableIdle
  /\ extractIdle /\ mainIdle /\ patchIdle /\ applyIdle

NextFlow == workflow

SpecFlow == InitFlow /\ [][NextFlow]_vars

(***************************************************************************)
(* Claims about decompress_dcl                                             *)
(***************************************************************************)

\* C1: a match decoded before the window's first wrap whose distance exceeds
\* the window position makes the decode return None: the copy loop is never
\* entered with first set and dist > window_pos, the copy loop only reads
\* window cells this decode has written, a match as the first unit is never
\* copied, and the failing step emits no byte and writes no window cell.
C1_State ==
  /\ (pc = "copy" /\ first) => dist <= window_pos
  /\ (pc = "copy" /\ remaining > 0) => SrcPos(window_pos, dist) \in DOMAIN window
  /\ pc = "copy" => Len(output) > 0
  /\ ret = "far" => /\ pc = "returned" /\ result = None
                    /\ first /\ dist > window_pos

C1_Step ==
  (ret # "far" /\ ret' = "far") => (output' = output /\ window' = window)

C1_DistanceTooFar == []C1_State /\ [][C1_Step]_vars

C1_Witness ==
  pc = "returned" /\ ret = "far" /\ window_pos > 0 /\ dist > window_pos

\* C2: decompress_dcl never lets an exception out: it returns a byte string
\* or None, and a short input, a bad header, an exception in the try block
\* and a distance too far back all return None.
C2_NeverRaises ==
  /\ pc # "raised"
  /\ pc = "returned" =>
       /\ result.kind \in {"None", "bytes"}
       /\ \A i \in 1..Len(result.value) : result.value[i] \in Byte
  /\ ret \in {"short", "lit", "dict", "far", "except"} => result = None

C2_Witness == pc = "returned" /\ ret = "except" /\ Len(output) > 0

\* C3: a byte string is returned only at the end code (a match unit of
\* length 519) and is then the output emitted so far; every other return is
\* None, and the output only ever grows at its end.
C3_State ==
  /\ result.kind = "bytes" =>
       /\ ret = "end" /\ length = 519 /\ result.value = output
  /\ (pc = "returned" /\ ret # "end") => result = None
  /\ pc # "returned" => result = Unset

C3_Step ==
  \/ output' = output
  \/ /\ Len(output') = Len(output) + 1
     /\ SubSeq(output', 1, Len(output)) = output

C3_ReturnsAtEndCode == []C3_State /\ [][C3_Step]_vars

C3_Witness ==
  pc = "returned" /\ ret = "end" /\ Len(result.value) > 20

\* C4: a stream of k literal units with lit = 0, closed by the end code,
\* decodes to those k bytes for every dict_bits in 4..6; 0x41, 0x42, 0x43
\* with dict_bits = 4 gives "ABC".
IsLiteralStream(fx) ==
  /\ fx.built /\ fx.lit = 0 /\ Len(fx.units) >= 1
  /\ fx.units[Len(fx.units)] = End
  /\ \A i \in 1..(Len(fx.units) - 1) : fx.units[i].t = "lit"

LiteralBytes(fx) == [i \in 1..(Len(fx.units) - 1) |-> fx.units[i].b]

ABC == <<0, 4, 130, 8, 25, 10, 248, 7>>

C4_LiteralStream ==
  /\ IsLiteralStream(fixture) =>
       /\ pc = "returned" => result = bytes(LiteralBytes(fixture))
       /\ pc \in {"start", "loop", "returned"}
       /\ pc = "loop" => unit_no < Len(fixture.units)
  /\ data = ABC =>
       /\ pc = "returned" => result = bytes(<<65, 66, 67>>)
       /\ pc \in {"start", "loop", "returned"}
       /\ pc = "loop" => unit_no < 4

C4_Witness ==
  /\ IsLiteralStream(fixture) /\ data = ABC /\ dict_bits = 4 /\ lit = 0
  /\ pc = "returned" /\ result = bytes(<<65, 66, 67>>)

\* C5: the decode returns None with nothing emitted when the first byte is
\* not 0 or 1 or the second is not in 4..6 (or there are not two bytes);
\* every header with lit in {0, 1} and dict_bits in 4..6 is accepted and the
\* decode goes on to the unit loop.
HeaderOk(d) == Len(d) >= 2 /\ d[1] \in {0, 1} /\ d[2] \in {4, 5, 6}

C5_State ==
  pc # "start" =>
    /\ ~HeaderOk(data) =>
         /\ pc = "returned" /\ result = None /\ output = <<>>
         /\ ret \in {"short", "lit", "dict"} /\ unit_no = 0
    /\ HeaderOk(data) =>
         /\ ret \notin {"short", "lit", "dict"}
         /\ lit = data[1] /\ dict_bits = data[2]

C5_Step == (pc = "start" /\ HeaderOk(data)) => pc' = "loop"

C5_HeaderValidation == []C5_State /\ [][C5_Step]_vars

C5_Witness == pc = "returned" /\ ret = "dict" /\ data[1] \in {0, 1} /\ data[2] = 7

\* C6: a match of length 2 reads 2 raw distance bits and any other match
\* reads dict_bits of them, the distance being
\* (distance symbol << bits) + extra + 1: every unit of a stream encoded
\* that way is recovered as it was encoded, for dict_bits 4, 5 and 6.
C6_DistanceBits ==
  (fixture.built /\ unit_no >= 1 /\ (pc \in {"loop", "copy"} \/ ret \in {"end", "far"})) =>
    /\ unit_no <= Len(fixture.units)
    /\ LET u == fixture.units[unit_no]
       IN  /\ u.t = "lit" => symbol = u.b /\ pc = "loop"
           /\ u.t = "end" => ret = "end"
           /\ u.t = "match" =>
                /\ length = u.len /\ dist = u.dist
                /\ dist_extra = (IF u.len = 2 THEN 2 ELSE dict_bits)
                /\ pc = "copy" \/ ret = "far" \/ (pc = "loop" /\ remaining = 0)

C6_Witness ==
  /\ fixture.built /\ pc = "copy" /\ length = 2 /\ dist = 17 /\ dict_bits = 6
  /\ dist_extra = 2


(***************************************************************************)
(* Claims about find_is3_archives                                          *)
(***************************************************************************)
\* The offsets at which the signature occurs in d.
Occurrences(d) ==
  {p \in 0..(Len(d) - 4) : SubSeq(d, p + 1, p + 4) = IS3_SIGNATURE}

Offsets_(as) == [k \in 1..Len(as) |-> as[k].offset]

\* C7: the scan returns one header for every occurrence p of the signature
\* with p + 0x33 <= len(buffer) and none for any other offset, in strictly
\* ascending offset order; while it runs, every occurrence below pos has
\* been decided that way, so the step of 4 skips none; two concatenated
\* minimal headers give the two offsets 0 and 0x33.
C7_ScanFindsAll ==
  pc \in {"find", "returned"} =>
    LET offs == Offsets_(archives)
        limit == IF pc = "returned" THEN Len(data) ELSE pos
    IN  /\ \A k \in 1..Len(offs) :
             /\ offs[k] \in Occurrences(data)
             /\ offs[k] + 51 <= Len(data)
             /\ k > 1 => offs[k - 1] < offs[k]
             /\ archives[k] = [offset |-> offs[k],
                               file_count |-> data[offs[k] + 13] + 256 * data[offs[k] + 14],
                               archive_len |-> data[offs[k] + 19] + 256 * data[offs[k] + 20]
                                                 + 65536 * data[offs[k] + 21]
                                                 + 16777216 * data[offs[k] + 22],
                               name_offset |-> data[offs[k] + 42] + 256 * data[offs[k] + 43]
                                                 + 65536 * data[offs[k] + 44]
                                                 + 16777216 * data[offs[k] + 45],
                               dir_count |-> data[offs[k] + 50] + 256 * data[offs[k] + 51]]
        /\ \A p \in Occurrences(data) :
             (p < limit /\ p + 51 <= Len(data)) => \E k \in 1..Len(offs) : offs[k] = p
        /\ (pc = "returned" /\ data = MinimalHeader \o MinimalHeader) =>
             offs = <<0, 51>>

C7_Witness ==
  /\ pc = "returned" /\ data = MinimalHeader \o MinimalHeader
  /\ Len(archives) = 2 /\ archives[1].offset = 0 /\ archives[2].offset = 51

(***************************************************************************)
(* Claims about parse_file_table                                           *)
(***************************************************************************)
RECURSIVE SizesBefore(_, _)
SizesBefore(fs, n) ==
  IF n <= 1 THEN 0 ELSE fs[n - 1].compressed_size + SizesBefore(fs, n - 1)

\* C8: in the returned list the N-th record's compressed_offset is
\* header.offset + 0xFF plus the sizes of the records before it; sizes 100
\* and 200 at offset 0 give 0xFF and 0xFF + 100.
C8_OffsetsContiguous ==
  pc = "returned" =>
    /\ \A n \in 1..Len(files) :
         files[n].compressed_offset
           = archive_info.offset + 255 + SizesBefore(files, n)
    /\ result.value[1] = files
    /\ (/\ archive_info.offset = 0 /\ Len(files) = 2
        /\ files[1].compressed_size = 100 /\ files[2].compressed_size = 200) =>
         (files[1].compressed_offset = 255 /\ files[2].compressed_offset = 355)

C8_Witness ==
  /\ pc = "returned" /\ archive_info.offset = 0 /\ Len(files) = 2
  /\ files[1].compressed_size = 100 /\ files[2].compressed_size = 200
  /\ files[1].compressed_offset = 255 /\ files[2].compressed_offset = 355

\* C9, as claimed: the compressed_offset values of the returned list are
\* strictly increasing.
C9_StrictlyIncreasing ==
  pc = "returned" =>
    \A n \in 2..Len(files) :
      files[n].compressed_offset > files[n - 1].compressed_offset

\* C9, amended: the compressed_offset values never decrease along the list,
\* and a record's offset is greater than its predecessor's exactly when the
\* predecessor's compressed_size is not 0.
C9_NonDecreasing ==
  pc = "returned" =>
    \A n \in 2..Len(files) :
      /\ files[n].compressed_offset >= files[n - 1].compressed_offset
      /\ files[n].compressed_offset > files[n - 1].compressed_offset
           <=> files[n - 1].compressed_size > 0

C9_Witness ==
  /\ pc = "returned" /\ Len(files) = 2 /\ files[1].compressed_size = 0
  /\ files[2].compressed_offset = files[1].compressed_offset

\* The directory of the file of index n (from 0): the k-th directory when n
\* falls in its file_count slots, counted in declaration order.
RECURSIVE SlotsBefore(_, _)
SlotsBefore(dirs, k) ==
  IF k <= 1 THEN 0 ELSE dirs[k - 1].file_count + SlotsBefore(dirs, k - 1)

HasSlot(dirs, n) ==
  \E k \in 1..Len(dirs) :
    SlotsBefore(dirs, k) <= n /\ n < SlotsBefore(dirs, k) + dirs[k].file_count

SlotDir(dirs, n) ==
  dirs[CHOOSE k \in 1..Len(dirs) :
         SlotsBefore(dirs, k) <= n /\ n < SlotsBefore(dirs, k) + dirs[k].file_count].name

\* The path the claim gives the file of index n, with sep as the separator.
ClaimedPath(dirs, n, filename, sep) ==
  IF HasSlot(dirs, n) /\ SlotDir(dirs, n) # <<>>
  THEN SlotDir(dirs, n) \o <<sep>> \o filename
  ELSE filename

\* The buffer of the example: SUBDIR with file_count 2, then A.TXT and B.TXT.
IsSubdirExample(fx) ==
  /\ fx.dirs = <<[count |-> 2, name |-> SUBDIR, pad |-> 0]>>
  /\ Len(fx.files) = 2
  /\ fx.files[1].name = A_TXT /\ fx.files[2].name = B_TXT
  /\ fx.shape = PlainShape

\* C10, as claimed: the example gives the FileRecord paths "SUBDIR/A.TXT"
\* and "SUBDIR/B.TXT".
C10_SlashPaths ==
  (pc = "returned" /\ IsSubdirExample(fixture)) =>
    /\ Len(files) = 2
    /\ files[1].name = SUBDIR \o <<SlashChar>> \o A_TXT
    /\ files[2].name = SUBDIR \o <<SlashChar>> \o B_TXT

\* C10, amended: the file of index i gets the directory of its slot, and
\* its path is the directory name, a backslash and the filename when the
\* slot exists and the name is not empty, the bare filename otherwise; the
\* example gives "SUBDIR\A.TXT" and "SUBDIR\B.TXT".
C10_State ==
  /\ (pc = "returned" /\ IsSubdirExample(fixture)) =>
       /\ Len(files) = 2
       /\ files[1].name = SUBDIR \o <<Backslash>> \o A_TXT
       /\ files[2].name = SUBDIR \o <<Backslash>> \o B_TXT
  /\ (/\ pc = "returned"
      /\ fixture.shape \in {PlainShape, [PlainShape EXCEPT !.base = 3],
                            [PlainShape EXCEPT !.more_files = 1]}) =>
       /\ Len(files) = Len(fixture.files)
       /\ \A n \in 1..Len(files) :
            files[n].name
              = ClaimedPath(directories, n - 1,
                            SelectSeq(fixture.files[n].name, LAMBDA c : c < 128),
                            Backslash)

C10_Step ==
  (pc = "files" /\ Len(files') = Len(files) + 1) =>
    files'[Len(files')].name
      = ClaimedPath(directories, idx, FileName(data, pos), Backslash)

C10_BackslashPaths == []C10_State /\ [][C10_Step]_vars

C10_Witness ==
  /\ pc = "returned" /\ IsSubdirExample(fixture) /\ Len(files) = 2
  /\ files[1].name = SUBDIR \o <<Backslash>> \o A_TXT
  /\ files[2].name = SUBDIR \o <<Backslash>> \o B_TXT

(***************************************************************************)
(* Claims about extract_archive                                            *)
(***************************************************************************)
\* What decompress_dcl returned for the payload of the record of index n
\* (from 1), once it has been decoded.
Decoded(n) == runs.seen[Payload(ea_data, files[n])]

\* C11, as claimed: extract_archive goes through every record and returns
\* (extracted, failed), extracted being the number of records whose payload
\* decodes (the decoder reaches the end code and returns its bytes), each
\* of them written to its path, failed the number of records whose decode
\* fails, and the two adding up to the number of records.
C11_CountsDecodes ==
  ea_pc = "returned" =>
    /\ file_no = Len(files)
    /\ result = [kind |-> "counts", value |-> <<extracted, failed>>]
    /\ extracted + failed = Len(files)
    /\ extracted = Cardinality({n \in 1..Len(files) : Decoded(n).kind = "bytes"})
    /\ failed = Cardinality({n \in 1..Len(files) : Decoded(n) = None})
    /\ \A n \in 1..Len(files) :
         Decoded(n).kind = "bytes" =>
           <<output_dir, ReplaceBackslash(files[n].name)>> \in DOMAIN disk

\* C12: a record whose decode fails writes nothing: the disk changes only
\* in the step that follows a decode that returned a byte string at its end
\* code, and what is then at the record's path is the whole of that byte
\* string, every other file being left as it was.
C12_Step ==
  disk' # disk =>
    /\ ea_pc = "decode" /\ pc = "returned"
    /\ result.kind = "bytes" /\ ret = "end" /\ result.value = output
    /\ LET path == <<output_dir, ReplaceBackslash(files[file_no + 1].name)>>
       IN  /\ DOMAIN disk' = (DOMAIN disk) \cup {path}
           /\ disk'[path] = result.value
           /\ \A q \in DOMAIN disk : q # path => disk'[q] = disk[q]

C12_State ==
  (ea_pc = "decode" /\ pc = "returned" /\ result = None) =>
    \A q \in DOMAIN disk : \E d \in DOMAIN runs.seen :
      runs.seen[d] = bytes(disk[q])

C12_NoPartialWrite == []C12_State /\ [][C12_Step]_vars

\* A decode that fails after it has emitted bytes, and a disk that holds
\* nothing at that record's path.
C12_Witness ==
  /\ ea_pc = "loop" /\ file_no >= 1 /\ failed >= 1
  /\ Decoded(file_no) = None /\ output # <<>>
  /\ <<output_dir, ReplaceBackslash(files[file_no].name)>> \notin DOMAIN disk

\* C13, as claimed: the paths of the records parse_file_table returns are
\* pairwise distinct, and extract_archive never writes a record to a path
\* another record was written to.
C13_DistinctPaths ==
  /\ ea_pc = "loop" =>
       \A m, n \in 1..Len(files) : m # n => files[m].name # files[n].name
  /\ (ea_pc = "decode" /\ pc = "returned" /\ Truthy(result)) =>
       <<output_dir, ReplaceBackslash(files[file_no + 1].name)>> \notin DOMAIN disk

(***************************************************************************)
(* Claims about truncated tables                                           *)
(***************************************************************************)
\* The 16-bit little-endian number at offset off of d.
Word(d, off) == d[off + 1] + 256 * d[off + 2]

\* The positions of the records a pass reads: it starts at p, reads at most
\* n records whose first fixed bytes all lie in d, and goes from a record
\* to the next by the block_len the record holds at offset at.
RECURSIVE RecordsAt(_, _, _, _, _)
RecordsAt(d, p, n, fixed, at) ==
  IF n = 0 \/ p + fixed > Len(d) THEN <<>>
  ELSE <<p>> \o RecordsAt(d, p + Word(d, p + at), n - 1, fixed, at)

TableStart == archive_info.offset + archive_info.name_offset

DirsAt == RecordsAt(data, TableStart, archive_info.dir_count, 6, 2)

\* Where the directory pass leaves the cursor.
AfterDirs ==
  IF DirsAt = <<>> THEN TableStart
  ELSE DirsAt[Len(DirsAt)] + Word(data, DirsAt[Len(DirsAt)] + 2)

FilesAt == RecordsAt(data, AfterDirs, archive_info.file_count, 30, 23)

\* C14: parse_file_table never raises, whatever the buffer, the header and
\* the block_len values (0 too): it returns at most dir_count directory
\* entries and at most file_count file records, which are the records read
\* before the first one that does not fit, and a directory pass that
\* stopped early leaves no file record to read; and it does return.
C14_State ==
  /\ pc # "raised"
  /\ Len(directories) <= archive_info.dir_count
  /\ Len(files) <= archive_info.file_count
  /\ pc = "returned" =>
       /\ result = [kind |-> "table", value |-> <<files, directories>>]
       /\ Len(directories) = Len(DirsAt)
       /\ \A k \in 1..Len(directories) :
            directories[k].file_count = Word(data, DirsAt[k])
       /\ Len(files) = Len(FilesAt)
       /\ \A k \in 1..Len(files) :
            /\ files[k].date = Word(data, FilesAt[k] + 15)
            /\ files[k].time = Word(data, FilesAt[k] + 17)
       /\ Len(directories) < archive_info.dir_count => files = <<>>

C14_ToleratesTruncation == []C14_State /\ <>(pc = "returned")

\* A buffer cut inside the fixed fields of its last file record: the
\* records before it are returned.
C14_Witness ==
  /\ pc = "returned" /\ fixture.shape.cut = 20
  /\ Len(fixture.files) = 2 /\ Len(files) = 1
  /\ Len(directories) = Len(fixture.dirs) /\ Len(directories) >= 1

\* C15, as claimed: no directory entry and no file record is taken from a
\* record whose fixed fields or whose name bytes reach beyond the end of
\* the buffer.
C15_Step ==
  /\ (pc = "dirs" /\ Len(directories') = Len(directories) + 1) =>
       pos + 6 + Word(data, pos + 4) <= Len(data)
  /\ (pc = "files" /\ Len(files') = Len(files) + 1) =>
       pos + 30 + data[pos + 30] <= Len(data)

C15_NoRecordPastEnd == [][C15_Step]_vars

\* C16: decoding and extraction keep nothing from one call to the next:
\* decompress_dcl returns for a payload what it returned for the same
\* payload before, whatever was decoded in between, and a second
\* extraction of the same buffer and header into another output directory
\* returns the same counts and leaves the same names with the same contents.
C16_Deterministic ==
  /\ (ea_pc = "decode" /\ pc = "returned" /\ data \in DOMAIN runs.seen) =>
       result = runs.seen[data]
  /\ (ea_pc = "returned" /\ runs.first # Unset) =>
       /\ result = runs.first
       /\ output_dir = 2
       /\ Written(disk, 2) = Written(disk, 1)

C16_Witness ==
  /\ ea_pc = "returned" /\ runs.first # Unset /\ output_dir = 2
  /\ extracted = 2 /\ DOMAIN Written(disk, 2) = {A_TXT, B_TXT}
  /\ Written(disk, 1)[B_TXT] = <<65, 65, 65>>


(***************************************************************************)
(* Claims about main of is3extract.py.                                     *)
(***************************************************************************)
\* The run is over: by sys.exit, by the end of main, or by a traceback.
Ended == m_pc \in {"exited", "raised"}

\* The buffer holds a signature with room for a header after it.
HasArchive(d) ==
  \E p \in 0..(Len(d) - Len(IS3_SIGNATURE)) :
    /\ \A k \in 1..Len(IS3_SIGNATURE) : d[p + k] = IS3_SIGNATURE[k]
    /\ p + 51 <= Len(d)

\* C17: a run of the extractor that names its input and its output
\* directory ends with exit code 1 if the input file does not exist or no
\* archive is found in it, and with exit code 0 in every other case,
\* whatever options were passed and however many decodes failed.
C17_ExitCodes ==
  (Ended /\ Len(argv) >= 3) =>
    exit_code.value =
      IF ~Exists(argv[2]) \/ ~HasArchive(fixture.buffer) THEN 1 ELSE 0

\* The same with the options of the command line well formed: the word
\* after --archive, when there is one, is a number.
C17_WellFormed ==
  (Ended /\ Len(argv) >= 3 /\ (HasFilterWord(argv) => IsInt(FilterWord(argv)))) =>
    exit_code.value =
      IF ~Exists(argv[2]) \/ ~HasArchive(fixture.buffer) THEN 1 ELSE 0

\* A run of --list, and a run of --archive N without --list.
ListRun == InArgv(argv, "--list")

FilterRun ==
  ~ListRun /\ Len(argv) >= 3 /\ HasFilterWord(argv) /\ IsInt(FilterWord(argv))

FilterN == IntWords[FilterWord(argv)]

\* Every file written and every directory made is output_dir or below it.
OnlyInto(dir) ==
  /\ \A key \in DOMAIN disk : key[1] = dir
  /\ \A m \in made : m[1] = dir

C18_List ==
  ListRun =>
    /\ calls = <<>>
    /\ ea_pc = "idle"
    /\ disk = <<>> /\ made = {}
    /\ (m_pc = "exited" /\ m_archives # <<>>) => exit_code = ExitStatus(0)

C18_Filter ==
  FilterRun =>
    /\ \A k \in 1..Len(calls) : calls[k] = [index |-> FilterN, dir |-> <<>>]
    /\ Len(calls) <= 1
    /\ OnlyInto(<<>>)
    /\ (m_pc = "exited" /\ FilterN \in 0..(Len(m_archives) - 1)) =>
         Len(calls) = 1

\* C18: a run with --list never calls extract_archive and writes nothing
\* under the output directory, and it exits 0 when it has listed the
\* archives it found; a run with --archive N and no --list calls
\* extract_archive for the archive of index N only, once, with the output
\* directory itself as its target, and for no other archive.
C18_ListAndFilter == C18_List /\ C18_Filter

\* --archive 1 on a file of two archives: the second one is extracted into
\* the output directory and the first is not.
C18_Witness ==
  /\ FilterRun /\ FilterN = 1
  /\ m_pc = "exited"
  /\ Len(m_archives) = 2
  /\ calls = <<[index |-> 1, dir |-> <<>>]>>
  /\ disk # <<>>

\* --list on a file of two archives: both are listed and the run exits 0.
C18_ListWitness ==
  /\ ListRun /\ m_pc = "exited" /\ exit_code = ExitStatus(0)
  /\ Len(m_archives) = 2 /\ arch_no = 2


(***************************************************************************)
(* Claims about patch_file of sc2knet_patcher.py.                          *)
(***************************************************************************)
\* What bsdiff_apply makes of the file as it was before the call.
PatchResult ==
  bsdiff_apply(fixture.disk[Target], fixture.patch_data.new_size,
               fixture.patch_data.triples, fixture.patch_data.diff_mods,
               fixture.patch_data.extra)

Verifies ==
  PatchResult.exc = "none" /\ md5(PatchResult.new) = fixture.patch_data.post_md5

AlreadyPatched ==
  Target \in DOMAIN fixture.disk
    /\ md5(fixture.disk[Target]) = fixture.patch_data.post_md5

\* The backup is as it was before the call, there or not.
BackupUntouched ==
  /\ BackupPath(Target) \in DOMAIN disk <=> BackupPath(Target) \in DOMAIN fixture.disk
  /\ BackupPath(Target) \in DOMAIN disk =>
       disk[BackupPath(Target)] = fixture.disk[BackupPath(Target)]

C19_Always ==
  /\ disk # fixture.disk =>
       Target \in DOMAIN fixture.disk /\ ~AlreadyPatched /\ Verifies
  /\ BackupPath(Target) \in DOMAIN fixture.disk => BackupUntouched

C19_Returned ==
  pf_pc = "returned" =>
    /\ AlreadyPatched => (result.value = TRUE /\ disk = fixture.disk)
    /\ (Target \in DOMAIN fixture.disk /\ ~AlreadyPatched
          /\ PatchResult.exc = "none" /\ ~Verifies)
         => (result.value = FALSE /\ disk = fixture.disk)
    /\ disk # fixture.disk =>
         /\ result.value = TRUE
         /\ disk[Target] = PatchResult.new
         /\ (fixture.backup /\ BackupPath(Target) \notin DOMAIN fixture.disk)
              => /\ BackupPath(Target) \in DOMAIN disk
                 /\ disk[BackupPath(Target)] = fixture.disk[Target]
         /\ ~fixture.backup => BackupUntouched

C19_SkipWitness ==
  pf_pc = "returned" /\ AlreadyPatched /\ result.value = TRUE

C19_RejectWitness ==
  /\ pf_pc = "returned" /\ result.value = FALSE /\ new_data # <<>>
  /\ BackupPath(Target) \in DOMAIN disk

C19_KeepWitness ==
  /\ pf_pc = "returned" /\ disk # fixture.disk /\ fixture.backup
  /\ BackupPath(Target) \in DOMAIN fixture.disk


(***************************************************************************)
(* Claim about the sliding window of decompress_dcl.                       *)
(***************************************************************************)
\* C20: with n the number of bytes emitted so far, window_pos is n mod
\* 4096, first is true exactly when n < 4096, and for every k from 1 to
\* min(n, 4096) the window cell at (window_pos - k) mod 4096 holds
\* output[n - k] (counted from 0).
C20_WindowInvariant ==
  /\ window_pos = Len(output) % MAXWIN
  /\ first <=> Len(output) < MAXWIN
  /\ \A k \in 1..(IF Len(output) < MAXWIN THEN Len(output) ELSE MAXWIN) :
       WinRead(window, (window_pos - k) % MAXWIN) = output[Len(output) - k + 1]

\* The window has wrapped and bytes have been emitted since: the cells
\* before window_pos hold bytes written after the wrap, the others the
\* bytes of before.
C20_Witness ==
  /\ Len(output) > MAXWIN + 50
  /\ ~first
  /\ pc = "returned" /\ result.kind = "bytes"


(***************************************************************************)
(* Claim about the copy loop of decompress_dcl.                            *)
(***************************************************************************)
\* The bytes of the current match copied so far, and the bytes that were
\* out when it began.
CopiedNow == length - remaining

MatchStart == Len(output) - CopiedNow

\* The first m bytes after position n of out repeat out at distance d.
Repeats(out, n, m, d) ==
  \A i \in 0..(m - 1) : out[n + i + 1] = out[n + i - d + 1]

C21_State ==
  pc = "copy" =>
    /\ remaining \in 1..length
    /\ dist \in 1..MatchStart
    /\ Repeats(output, MatchStart, CopiedNow, dist)

C21_Step ==
  (pc = "copy" /\ pc' # "copy") =>
    /\ Len(output') = MatchStart + length
    /\ SubSeq(output', 1, Len(output)) = output
    /\ Repeats(output', MatchStart, length, dist)

\* C21: an accepted match of length L and distance D decoded with n bytes
\* out appends exactly L bytes, the i-th of them equal to output[n + i - D]
\* of the output as extended so far, when D < L and when the copy crosses
\* the wrap of the window too.
C21_MatchCopies == []C21_State /\ [][C21_Step]_vars

\* Inside a copy with D < L that has passed the wrap of the window: bytes
\* of this match are on both sides of position 0.
C21_Witness ==
  /\ pc = "copy"
  /\ dist < length
  /\ CopiedNow > dist
  /\ Len(output) > MAXWIN
  /\ window_pos > 0 /\ window_pos < CopiedNow


(***************************************************************************)
(* Claim about BitReader.bits                                              *)
(***************************************************************************)
\* Bit k of the input taken as one stream, the low bit of each byte first.
StreamBit(d, k) == (d[(k \div 8) + 1] \div (2 ^ (k % 8))) % 2

\* The number made of the n stream bits from position p, the first one in
\* bit 0.
RECURSIVE StreamValue(_, _, _)
StreamValue(d, p, n) ==
  IF n = 0 THEN 0 ELSE StreamBit(d, p) + 2 * StreamValue(d, p + 1, n - 1)

\* The bits asked for by the first k calls that returned.
RECURSIVE Consumed(_, _)
Consumed(cs, k) == IF k = 0 THEN 0 ELSE cs[k].need + Consumed(cs, k - 1)

Unread == 8 * Len(data) - Consumed(calls, Len(calls))

C22_Positions ==
  \A k \in 1..Len(calls) :
    /\ Consumed(calls, k) <= 8 * Len(data)
    /\ calls[k].val = StreamValue(data, Consumed(calls, k - 1), calls[k].need)

C22_Split ==
  (Len(calls) >= 2 /\ calls[1].need + calls[2].need <= 16) =>
    LET whole == bits(data, BitReader, calls[1].need + calls[2].need)
    IN  /\ whole.exc = NoExc
        /\ calls[1].val = whole.val % (2 ^ calls[1].need)
        /\ calls[2].val = whole.val \div (2 ^ calls[1].need)

C22_Failure ==
  pc = "raised" => (result.value = EndOfInput /\ Unread < result.need)

C22_Accumulator ==
  pc = "reader" =>
    /\ reader.bitcnt \in 0..7
    /\ reader.bitbuf < 2 ^ reader.bitcnt
    /\ 8 * reader.pos - reader.bitcnt = Consumed(calls, Len(calls))

\* C22: bits delivers the input as one bit stream, the low bit of each byte
\* first: after calls that returned, the next call returns the stream bits
\* that follow those already delivered, the first of them in bit 0, so that
\* bits(a) and then bits(b) give the low a bits and the next b bits of what
\* bits(a + b) gives; a call raises the end-of-input error exactly when
\* fewer than n unread bits remain; between calls the accumulator holds
\* fewer than 8 bits.
C22_BitStream == C22_Positions /\ C22_Split /\ C22_Failure /\ C22_Accumulator

\* Three calls that returned, the second one across two byte borders, with
\* bits set in each result.
C22_Witness ==
  /\ pc = "reader"
  /\ Len(calls) = 3
  /\ calls[1].need = 5 /\ calls[2].need = 13 /\ calls[3].need = 3
  /\ \A k \in 1..3 : calls[k].val # 0 /\ calls[k].val # 2 ^ calls[k].need - 1

\* A call that asks for more than is left after calls that returned.
C22_FailWitness ==
  pc = "raised" /\ Len(calls) = 2 /\ Unread > 0

(***************************************************************************)
(* Claims about HuffmanTable                                               *)
(***************************************************************************)
\* The symbols that the first j bytes of rep account for, for j from 0 on:
\* byte j stands for (high nibble + 1) symbols.
CopiesUpTo(rep) ==
  ForRange(LAMBDA j, acc : Append(acc, acc[j + 1] + (rep[j + 1] \div 16) + 1),
           0, Len(rep), <<0>>)

SymbolCount(rep) == CopiesUpTo(rep)[Len(rep) + 1]

\* The byte of rep that symbol s comes from: the bytes before it account
\* for fewer than s + 1 symbols, those up to it for at least s + 1.
SourceByte(cum, s) ==
  CHOOSE j \in 1..(Len(cum) - 1) : cum[j] <= s /\ s < cum[j + 1]

\* The lengths of the symbols 0, 1, ... as a function of the symbol: the
\* low nibble of the byte the symbol comes from.
LengthsFrom(rep, cum) ==
  [s \in 0..(cum[Len(cum)] - 1) |-> rep[SourceByte(cum, s)] % 16]

SymbolLengths(rep) == LengthsFrom(rep, CopiesUpTo(rep))

\* The cell of the symbol array where symbol s belongs: after the symbols
\* of shorter lengths and after the lower symbols of its own length.
Slot(lens, s) ==
  Cardinality({t \in DOMAIN lens :
                 /\ lens[t] # 0
                 /\ \/ lens[t] < lens[s]
                    \/ lens[t] = lens[s] /\ t < s})

Built == result.kind = "huffman"

ConstructionOf(rep, lens, h) ==
  /\ h.exc = NoExc <=> \A s \in DOMAIN lens : lens[s] <= MAXBITS
  /\ h.exc = NoExc =>
       /\ Expand(rep) = [i \in 1..SymbolCount(rep) |-> lens[i - 1]]
       /\ \A L \in 1..MAXBITS :
            h.count[L] = Cardinality({s \in DOMAIN lens : lens[s] = L})
       /\ Len(h.symbol) = SymbolCount(rep)
       /\ \A s \in {t \in DOMAIN lens : lens[t] # 0} : h.symbol[Slot(lens, s) + 1] = s
       /\ \A i \in (Cardinality({t \in DOMAIN lens : lens[t] # 0}) + 1)..SymbolCount(rep) :
            h.symbol[i] = 0

\* C23: the constructor expands each packed byte into (high nibble + 1)
\* copies of its low nibble, count[L] is the number of symbols of length L
\* for L in 1..13, and the symbol array holds the symbols of nonzero length
\* in blocks of ascending length from index 0, in ascending symbol order
\* inside a block; symbols of length 0 are not placed.
C23_Construction ==
  (Built /\ calls = <<>>) =>
    ConstructionOf(fixture.rep, SymbolLengths(fixture.rep), result.value)

\* A table with symbols of two lengths, the longer ones first in the list,
\* and unused symbols between them.
C23_Witness ==
  /\ Built /\ result.value.exc = NoExc
  /\ fixture.rep = <<35, 16>>
  /\ result.value.symbol = <<0, 1, 2, 0, 0>>

C23_OrderWitness ==
  /\ Built /\ result.value.exc = NoExc
  /\ fixture.rep = <<18, 1>>
  /\ result.value.symbol = <<2, 0, 1>>

C23_ProgramWitness ==
  /\ Built /\ fixture.rep = LITLEN /\ Len(result.value.symbol) = 256

\* The n stream bits of d from position p, as a sequence.
BitsFrom(d, p, n) == [i \in 1..n |-> StreamBit(d, p + i - 1)]

\* The canonical codes of the lengths lens: the first code of length 1 is
\* 0, codes of one length are consecutive in symbol order, and the first
\* code of the next length is twice the one after the last of this length.
RECURSIVE FirstCodes(_, _, _)
FirstCodes(counts, L, acc) ==
  IF L > MAXBITS THEN acc
  ELSE FirstCodes(counts, L + 1,
                  Append(acc, IF L = 1 THEN 0
                              ELSE 2 * (acc[L - 1] + counts[L - 1])))

CanonicalCodes(lens) ==
  LET counts == [L \in 1..MAXBITS |-> Cardinality({t \in DOMAIN lens : lens[t] = L})]
      firsts == FirstCodes(counts, 1, <<>>)
  IN  [s \in {t \in DOMAIN lens : lens[t] # 0} |->
         firsts[lens[s]] + Cardinality({t \in DOMAIN lens : lens[t] = lens[s] /\ t < s})]

\* The code c of n bits as it stands in the stream: most significant bit
\* first, each bit complemented.
InvertedBits(c, n) == [i \in 1..n |-> 1 - ((c \div (2 ^ (n - i))) % 2)]

\* The symbols whose code is what the stream holds from position p.
MatchingCodes(lens, codes, d, p) ==
  {s \in DOMAIN codes :
     /\ p + lens[s] <= 8 * Len(d)
     /\ BitsFrom(d, p, lens[s]) = InvertedBits(codes[s], lens[s])}

Matching(lens, d, p) == MatchingCodes(lens, CanonicalCodes(lens), d, p)

\* What decode has to do at stream position p for a prefix code: return the
\* one symbol whose code is there, having taken just its bits; fail with
\* the invalid-code error when MAXBITS bits are there and hold no code.
DecodesAt(lens, d, p, out) ==
  LET ms == Matching(lens, d, p)
  IN  /\ ms # {} =>
           /\ out.exc = NoExc
           /\ out.val \in ms
           /\ Delivered(out.rd) = p + lens[out.val]
      /\ (ms = {} /\ p + MAXBITS <= 8 * Len(d)) =>
           /\ out.exc = InvalidCode
           /\ Delivered(out.rd) = p + MAXBITS
      /\ out.exc = NoExc => out.val \in ms
      /\ out.exc = InvalidCode => ms = {}

C24_Step ==
  (pc = "reader" /\ Built /\ reader' # reader
     /\ IsPrefixCode(Expand(fixture.rep))) =>
    DecodesAt(SymbolLengths(fixture.rep), data, Delivered(reader),
              [exc |-> IF pc' = "reader" THEN NoExc ELSE pc',
               val |-> IF pc' = "reader" THEN calls'[Len(calls')].val ELSE 0,
               rd |-> reader'])

\* The symbols decoded so far are the symbols the stream was made of.
C24_State ==
  (Built /\ IsPrefixCode(Expand(fixture.rep))) =>
    /\ Len(calls) <= Len(fixture.syms) =>
         \A k \in 1..Len(calls) :
           /\ calls[k].val = fixture.syms[k]
           /\ calls[k].need = Expand(fixture.rep)[fixture.syms[k] + 1]
    /\ pc = InvalidCode => Len(calls) >= Len(fixture.syms)

\* C24: decode is canonical Huffman decoding on inverted bits: fed the
\* canonical code of symbol s, most significant bit first and each bit
\* complemented, it returns s after taking exactly length(s) bits, and a
\* bit sequence that matches no code within 13 bits fails with the
\* invalid-code error.
C24_CanonicalDecode == []C24_State /\ [][C24_Step]_vars

\* Two symbols of different lengths of the literal table decoded one after
\* the other.
C24_Witness ==
  /\ Built /\ fixture.rep = LITLEN
  /\ fixture.syms = <<65, 255>>
  /\ Len(calls) = 2 /\ calls[1].val = 65 /\ calls[2].val = 255
  /\ calls[1].need # calls[2].need

\* An incomplete code and a stream of bits that are no code of it.
C24_InvalidWitness ==
  /\ pc = InvalidCode /\ Delivered(reader) = MAXBITS
  /\ IsPrefixCode(Expand(fixture.rep))

\* The number of symbols and the longest code of the two fixed tables.
FixedTable(rep) == rep \in {LENLEN, DISTLEN}

SymbolsOf(rep) == IF rep = LENLEN THEN 0..15 ELSE 0..63

LongestOf(rep) == IF rep = LENLEN THEN 7 ELSE 8

RECURSIVE NeedSum(_)
NeedSum(cs) == IF cs = <<>> THEN 0 ELSE Head(cs).need + NeedSum(Tail(cs))

\* C25: LENLEN and DISTLEN are complete prefix codes: with enough input
\* bits, decode on the length table returns a symbol in 0..15 after at most
\* 7 bits and decode on the distance table a symbol in 0..63 after at most
\* 8 bits; the invalid-code failure cannot happen with these tables, and a
\* decoded length symbol is an index of BASE and of EXTRA.
C25_CompleteCodes ==
  (Built /\ FixedTable(fixture.rep)) =>
    /\ KraftSum(Expand(fixture.rep)) = 2 ^ MAXBITS
    /\ result.value.exc = NoExc
    /\ pc \in {"reader", EndOfInput}
    /\ pc = EndOfInput => 8 * Len(data) - NeedSum(calls) < LongestOf(fixture.rep)
    /\ \A k \in 1..Len(calls) :
         /\ calls[k].val \in SymbolsOf(fixture.rep)
         /\ calls[k].need \in 1..LongestOf(fixture.rep)
         /\ fixture.rep = LENLEN =>
              (calls[k].val + 1 \in DOMAIN BASE /\ calls[k].val + 1 \in DOMAIN EXTRA)

\* The longest code of the length table, decoded to the last symbol.
C25_Witness ==
  /\ Built /\ fixture.rep = LENLEN
  /\ Len(calls) >= 1
  /\ calls[1].need = 7 /\ calls[1].val = 15

C25_DistWitness ==
  /\ Built /\ fixture.rep = DISTLEN
  /\ Len(calls) >= 1
  /\ calls[1].need = 8 /\ calls[1].val = 63

(***************************************************************************)
(* Claim about the lengths and distances of decompress_dcl                 *)
(***************************************************************************)
\* A step of the match branch that computed a length and a distance: the
\* copy loop is entered or the distance is refused.
DistanceComputed == pc = "loop" /\ (pc' = "copy" \/ ret' = "far")

EndCodeRead == pc = "loop" /\ ret' = "end"

C26_Step ==
  /\ DistanceComputed =>
       /\ length' \in 2..(END_CODE - 1)
       /\ dist' \in 1..MAXWIN
       /\ length' = 2 => dist' \in 1..256
  /\ EndCodeRead =>
       /\ length' = END_CODE
       /\ symbol' = 15
       /\ length' - BASE[symbol' + 1] = 255

C26_State ==
  /\ length = 0 \/ length \in 2..END_CODE
  /\ length = END_CODE => symbol = 15
  /\ pc = "copy" => SrcPos(window_pos, dist) \in 0..(MAXWIN - 1)

\* C26: every match length lies in 2..519, and 519 comes only from length
\* symbol 15 with all eight extra bits set; every distance lies in 1..4096,
\* in 1..256 when the length is 2; every index the copy loop reads the
\* window at is in 0..4095.
C26_Ranges == []C26_State /\ [][C26_Step]_vars

\* The longest match at the greatest distance.
C26_Witness ==
  /\ length = END_CODE - 1 /\ dist = MAXWIN /\ ret = "far"

C26_ShortWitness ==
  /\ length = 2 /\ dist = 256 /\ ret = "far"

C26_EndWitness ==
  /\ length = END_CODE /\ symbol = 15 /\ ret = "end"

(***************************************************************************)
(* Claim about the termination of decompress_dcl                           *)
(***************************************************************************)
\* A pass of the unit loop that goes on takes input bits, one that takes
\* none ends the function with the input used up; a pass of the copy loop
\* counts down and emits one byte.
C27_Step ==
  /\ (pc = "loop" /\ reader' = reader) =>
       (Ends' /\ result' = None /\ Delivered(reader) = 8 * Len(data))
  /\ (pc = "loop" /\ ~Ends') => Delivered(reader') > Delivered(reader)
  /\ (pc = "copy") =>
       (remaining' = remaining - 1 /\ Len(output') = Len(output) + 1)

\* A copy has at most 518 passes left, and no more units were decoded than
\* bits were read after the two header bytes.
C27_State ==
  /\ pc = "copy" => (length <= END_CODE - 1 /\ remaining \in 1..length)
  /\ pc \in {"loop", "copy"} =>
       (reader.pos <= Len(data) /\ unit_no <= Delivered(reader) - 16)
  /\ unit_no <= 8 * Len(data)

\* C27: decompress_dcl terminates on every input: each pass of the unit
\* loop takes at least one input bit, each match copies at most 518 bytes,
\* so the loop ends at the end code or with the end-of-input failure after
\* no more passes than there are input bits.
C27_Terminates == []C27_State /\ [][C27_Step]_vars /\ <>Ends

\* A decode that ended with the end-of-input failure after a match was
\* copied.
C27_Witness ==
  /\ Ends /\ result = None /\ ret = "except"
  /\ unit_no >= 2 /\ output # <<>> /\ length >= 2

(***************************************************************************)
(* Claim about where extract_archive writes                                *)
(***************************************************************************)
\* C28: every file extract_archive has written lies below the output
\* directory it was given, whatever names the table holds.
C28_WritesInsideRoot ==
  \A q \in DOMAIN disk : Under(Resolve(q[1], q[2]), OutputRoot(q[1]))

\* A file written for a record whose path begins with "..": it is in the
\* parent of the output directory.
C28_ParentWritten ==
  \E q \in DOMAIN disk :
    /\ SubSeq(q[2], 1, 2) = DOTDOT
    /\ Resolve(q[1], q[2]) = <<<<65>>>>

\* A file written for a record whose path begins with a separator: it is
\* where the path says from the root of the file system.
C28_AbsoluteWritten ==
  \E q \in DOMAIN disk :
    /\ q[2] # <<>> /\ q[2][1] = SlashChar
    /\ ~Under(Resolve(q[1], q[2]), OutputRoot(q[1]))

\* A record with an empty file name ends the function with an exception,
\* nothing written for it.
C28_EmptyNameRaises ==
  (ea_pc = "raised" /\ pc = "returned" /\ files[file_no + 1].name = <<>>)
    => <<output_dir, <<>>>> \notin DOMAIN disk

(***************************************************************************)
(* Claim about apply_patches on the two tables                             *)
(***************************************************************************)
\* The statuses of the results rs.
StatusesOf(rs) == {rs[i].status : i \in DOMAIN rs}

\* What the call that has returned was given.
GivenData == IF ap_first.kind = "first" THEN ap_first.value.data ELSE fixture.data

\* A pass of the loop keeps the length, changes bytes of the place of its
\* patch only and only if the place held the original bytes, and changes
\* nothing if it reports MISMATCH or OUT_OF_RANGE.
C29_Step ==
  (ap_pc = "loop" /\ ap_no' = ap_no + 1) =>
    LET patch == patches[ap_no + 1]
        current == ByteSlice(ap_data, patch.offset,
                             patch.offset + Len(patch.original))
    IN  /\ ap_data'.len = ap_data.len
        /\ DOMAIN ap_data'.at = DOMAIN ap_data.at
        /\ \A k \in DOMAIN ap_data.at :
             ap_data'.at[k] # ap_data.at[k] =>
               (k \in RangeOf(patch) /\ current = patch.original)
        /\ results'[ap_no + 1].status \in {"MISMATCH", "OUT_OF_RANGE"} =>
             ap_data' = ap_data

\* What a call returned: data as long as what it was given, with the place
\* of every patch reported MISMATCH or OUT_OF_RANGE as it was; and for the
\* second call the data it was given, with ALREADY for every patch the
\* first call reported PATCHED or ALREADY.
C29_State ==
  ap_pc = "returned" =>
    /\ Len(results) = Len(patches)
    /\ ap_data.len = GivenData.len
    /\ \A i \in DOMAIN patches :
         results[i].status \in {"MISMATCH", "OUT_OF_RANGE"} =>
           \A k \in RangeOf(patches[i]) \cap DOMAIN ap_data.at :
             ap_data.at[k] = GivenData.at[k]
    /\ ap_first.kind = "first" =>
         /\ ap_data = ap_first.value.data
         /\ \A i \in DOMAIN patches :
              ap_first.value.results[i].status \in {"PATCHED", "ALREADY"} =>
                results[i].status = "ALREADY"

\* C29: apply_patches with one of the two tables returns data of the length
\* of its input, changes only bytes in the place of a patch that held the
\* original bytes, leaves the place of a patch it reports MISMATCH or
\* OUT_OF_RANGE as it was, and, given what it returned, changes nothing and
\* reports ALREADY for every patch it reported PATCHED or ALREADY before.
C29_Idempotent == []C29_State /\ [][C29_Step]_vars

\* The second call has returned for a file in which the first call patched
\* a place, found other bytes in another and a third out of range.
C29_Witness ==
  /\ ap_pc = "returned" /\ ap_first.kind = "first"
  /\ StatusesOf(ap_first.value.results)
       = {"PATCHED", "MISMATCH", "OUT_OF_RANGE"}
  /\ ap_first.value.data # ap_first.value.given
  /\ "ALREADY" \in StatusesOf(results)

\* The same for a file in which a place held the patched bytes already.
C29_AlreadyWitness ==
  /\ ap_pc = "returned" /\ ap_first.kind = "first"
  /\ StatusesOf(ap_first.value.results) = {"PATCHED", "ALREADY"}
  /\ StatusesOf(results) = {"ALREADY"}

(***************************************************************************)
(* Claim about the gates of main of main.py                                *)
(***************************************************************************)
\* The steps of the trace before its step number i that are calls of step.
Before(i, step) == {j \in 1..(i - 1) : trace[j].step = step}

\* The answer of the latest call of step before the step number i is TRUE.
LatestTrue(i, step) ==
  /\ Before(i, step) # {}
  /\ trace[CHOOSE j \in Before(i, step) :
             \A k \in Before(i, step) : k <= j].value = TRUE

\* The step number i of the trace is a gate that failed: an answer that is
\* not a yes, a second file check that failed, a final check that failed.
GateFailed(i) ==
  \/ trace[i].step = "input" /\ trace[i].value \notin {"y", "Y", "EOF"}
  \/ /\ trace[i].step = "file_checks" /\ trace[i].value = FALSE
     /\ Before(i, "file_checks") # {}
  \/ trace[i].step = "check_updated_game_files" /\ trace[i].value = FALSE

\* C30: the extraction of the image, the extraction of the updater and the
\* copy of its files come only after a file check that returned True, the
\* latest one; patch_v11 is called only after check_updated_game_files
\* returned True; and a run in which the user declines, the second file
\* check fails or the final check fails has exited right there, patch_v11
\* not called.
C30_Gated ==
  /\ \A i \in DOMAIN trace :
       trace[i].step \in {"extract_iso_recursive", "find_is3_archives", "copy"}
         => LatestTrue(i, "file_checks")
  /\ \A i \in DOMAIN trace :
       trace[i].step = "patch_v11" => LatestTrue(i, "check_updated_game_files")
  /\ \A i \in DOMAIN trace :
       GateFailed(i) =>
         /\ i = Len(trace)
         /\ w_pc = "exited"
         /\ \A j \in DOMAIN trace : trace[j].step # "patch_v11"

\* A run that failed the first file check, downloaded, passed the second
\* and went through to patch_v11.
C30_Witness ==
  /\ w_pc = "exited"
  /\ trace[Len(trace)].step = "patch_v11"
  /\ trace[1] = Event("file_checks", FALSE)
  /\ \E i \in DOMAIN trace : trace[i].step = "copy"

\* A run that ended at the final check.
C30_FinalWitness ==
  /\ w_pc = "exited"
  /\ trace # <<>>
  /\ trace[Len(trace)].step = "check_updated_game_files"
  /\ trace[Len(trace)].value = FALSE

\* A run in which the user declined, and one whose second check failed.
C30_DeclineWitness ==
  /\ w_pc = "exited"
  /\ trace # <<>>
  /\ trace[Len(trace)].step = "input"

C30_RecheckWitness ==
  /\ w_pc = "exited"
  /\ Len(trace) = 4
  /\ trace[4].step = "file_checks"
=============================================================================
